---- MODULE Spec2Model ----
(***************************************************************************)
(* Label verification engine of the TTB label checker                      *)
(* (backend/app/verification.py, backend/app/models.py).                   *)
(*                                                                         *)
(* Texts are Python strings.  They are written here as TLA+ strings and     *)
(* processed as tuples of one-character strings, so that every regular      *)
(* expression, slice and comparison of the source is computed character by  *)
(* character.                                                               *)
(***************************************************************************)
EXTENDS Integers, Sequences, FiniteSets, TLC

\* Python's None where a text (a tuple of characters) is expected; no text equals
\* it, its one element being no character
None == << "<None>" >>

\* Optional numbers: << >> is None, << n >> is the number n
NoNumber == << >>

(***************************************************************************)
(* Characters and strings                                                  *)
(***************************************************************************)
\* the characters of a string, as a tuple (<< >> \o makes TLC build the tuple
\* once instead of computing each character whenever it is read)
Chars(s) == << >> \o [i \in 1..Len(s) |-> SubSeq(s, i, i)]

\* a loop "for i in lo..hi: acc = Step(acc, i)", split in halves to keep the
\* evaluation shallow; the test left = left makes TLC compute the first half
\* before it starts the second
RECURSIVE FoldRange(_, _, _, _)
FoldRange(Step(_, _), acc, lo, hi) ==
    IF lo > hi THEN acc
    ELSE IF lo = hi THEN Step(acc, lo)
    ELSE LET mid  == (lo + hi) \div 2
             left == FoldRange(Step, acc, lo, mid)
         IN  IF left = left THEN FoldRange(Step, left, mid + 1, hi) ELSE left

\* a local variable "x = ...; F(x)": the value is computed once, where F first
\* reads it
With(x, F(_)) == F(x)

\* the string of a tuple of characters
Str(t) == FoldRange(LAMBDA acc, i : acc \o t[i], "", 1, Len(t))

UpperLetters == Chars("ABCDEFGHIJKLMNOPQRSTUVWXYZ")
LowerLetters == Chars("abcdefghijklmnopqrstuvwxyz")
Digits == {"0", "1", "2", "3", "4", "5", "6", "7", "8", "9"}
Whitespace == {" ", "\n", "\t"}

UpperSet == {UpperLetters[i] : i \in 1..26}
LowerSet == {LowerLetters[i] : i \in 1..26}

LowerOf == [c \in UpperSet |-> LowerLetters[CHOOSE i \in 1..26 : UpperLetters[i] = c]]
UpperOf == [c \in LowerSet |-> UpperLetters[CHOOSE i \in 1..26 : LowerLetters[i] = c]]

\* str.lower()
lower(t) == << >> \o [i \in 1..Len(t) |-> IF t[i] \in UpperSet THEN LowerOf[t[i]] ELSE t[i]]

RECURSIVE SkipWs(_, _)
\* \s* from position i: the first position at or after i that holds no whitespace
SkipWs(t, i) == IF i <= Len(t) /\ t[i] \in Whitespace THEN SkipWs(t, i + 1) ELSE i

RECURSIVE SkipWsBack(_, _)
\* the last position at or before i that holds no whitespace, 0 when there is none
SkipWsBack(t, i) == IF i >= 1 /\ t[i] \in Whitespace THEN SkipWsBack(t, i - 1) ELSE i

\* str.strip()
strip(t) == SubSeq(t, SkipWs(t, 1), SkipWsBack(t, Len(t)))

\* re.sub(r'\s+', ' ', t): every maximal run of whitespace becomes one space
collapse_ws(t) ==
    FoldRange(LAMBDA acc, i :
                  IF t[i] \in Whitespace
                  THEN IF i > 1 /\ t[i - 1] \in Whitespace THEN acc ELSE Append(acc, " ")
                  ELSE Append(acc, t[i]),
              <<>>, 1, Len(t))

\* p occurs in t at (1-based) position i
MatchesAt(t, p, i) ==
    /\ i >= 1
    /\ i + Len(p) - 1 <= Len(t)
    /\ \A j \in 1..Len(p) : t[i + j - 1] = p[j]

\* Python "p in t"
Contains(t, p) == \E i \in 1..(Len(t) - Len(p) + 1) : MatchesAt(t, p, i)

\* Python t.index(p), 1-based; only used when Contains(t, p)
IndexOf(t, p) ==
    CHOOSE i \in 1..(Len(t) - Len(p) + 1) :
        /\ MatchesAt(t, p, i)
        /\ \A j \in 1..(i - 1) : ~MatchesAt(t, p, j)

\* Python slice t[a:b] with 0-based a <= b, clamped to the string
Slice(t, a, b) == SubSeq(t, a + 1, IF b > Len(t) THEN Len(t) ELSE b)

\* str.split(): the maximal runs of non-whitespace characters, in order
split(t) ==
    FoldRange(LAMBDA acc, i :
                  IF t[i] \in Whitespace THEN acc
                  ELSE IF i = 1 \/ t[i - 1] \in Whitespace
                       THEN Append(acc, << t[i] >>)
                       ELSE [acc EXCEPT ![Len(acc)] = Append(@, t[i])],
              <<>>, 1, Len(t))

\* ' '.join(ws[a:b]) for 0-based a, Python-clamped b
RECURSIVE JoinFrom(_, _, _)
JoinFrom(ws, i, b) ==
    IF i > b \/ i > Len(ws) THEN <<>>
    ELSE IF i = b \/ i = Len(ws) THEN ws[i]
    ELSE ws[i] \o <<" ">> \o JoinFrom(ws, i + 1, b)

JoinWords(ws, a, b) == JoinFrom(ws, a + 1, b)

\* a faulty variant: the text is not stripped
normalize_text_no_strip(t) == collapse_ws(lower(t))

normalize_text(t) == collapse_ws(strip(lower(t)))

(***************************************************************************)
(* Levenshtein.ratio(a, b) = (|a| + |b| - d) / (|a| + |b|), d the           *)
(* insert/delete distance |a| + |b| - 2 LCS(a, b); 1.0 for two empty        *)
(* strings.  Kept as the exact fraction <<numerator, denominator>>.         *)
(***************************************************************************)
Max(a, b) == IF a >= b THEN a ELSE b
Min(a, b) == IF a <= b THEN a ELSE b

\* for every j, the last position p <= j with b[p] = c, 0 when there is none
LastOccurrence(b, c) ==
    FoldRange(LAMBDA acc, j :
                  Append(acc, IF b[j] = c THEN j ELSE IF j = 1 THEN 0 ELSE acc[j - 1]),
              <<>>, 1, Len(b))

\* one row of the LCS table from the previous one: the character c of a is left
\* out, or paired with its last occurrence in b[1..j] (an earlier occurrence
\* leaves a shorter prefix of b, so it gives no more)
LcsRow(prev, last) ==
    << >> \o [j \in 1..Len(prev) |->
                Max(prev[j],
                    IF last[j] = 0 THEN 0
                    ELSE IF last[j] = 1 THEN 1
                    ELSE prev[last[j] - 1] + 1)]

LcsTable(a, b) ==
    LET last == [c \in {a[i] : i \in 1..Len(a)} |-> LastOccurrence(b, c)]
    IN  IF Len(a) = 0 \/ Len(b) = 0 THEN 0
        ELSE IF last = last  \* computes the table once
        THEN FoldRange(LAMBDA prev, i : LcsRow(prev, last[a[i]]),
                       << >> \o [j \in 1..Len(b) |-> 0], 1, Len(a))[Len(b)]
        ELSE 0

\* the common prefix and suffix belong to a longest common subsequence
CommonPrefix(a, b) ==
    LET n == Min(Len(a), Len(b))
        diff == {i \in 1..n : a[i] # b[i]}
    IN  IF diff = {} THEN n ELSE (CHOOSE i \in diff : \A j \in diff : i <= j) - 1

CommonSuffix(a, b) ==
    LET n == Min(Len(a), Len(b))
        diff == {i \in 1..n : a[Len(a) + 1 - i] # b[Len(b) + 1 - i]}
    IN  IF diff = {} THEN n ELSE (CHOOSE i \in diff : \A j \in diff : i <= j) - 1

Lcs(a, b) ==
    LET p  == CommonPrefix(a, b)
        a1 == SubSeq(a, p + 1, Len(a))
        b1 == SubSeq(b, p + 1, Len(b))
        s  == CommonSuffix(a1, b1)
    IN  p + s + LcsTable(SubSeq(a1, 1, Len(a1) - s), SubSeq(b1, 1, Len(b1) - s))

ratio(a, b) ==
    LET lensum == Len(a) + Len(b)
    IN  IF lensum = 0 THEN <<1, 1>> ELSE <<2 * Lcs(a, b), lensum>>

\* similarity >= num/den for a fraction sim = <<n, d>>
AtLeast(sim, num, den) == sim[1] * den >= num * sim[2]

\* sim1 > sim2
Greater(sim1, sim2) == sim1[1] * sim2[2] > sim2[1] * sim1[2]

(***************************************************************************)
(* Regular-expression pieces.  Every pattern of the source is a greedy      *)
(* number followed by characters that are neither digits nor '.', so the    *)
(* greedy scan decides the match: giving back a digit or the '.' leaves a   *)
(* digit or a '.' in front of the suffix, which then cannot match.          *)
(***************************************************************************)
RECURSIVE DigitsEnd(_, _)
\* \d* from position i: the first position at or after i that holds no digit
DigitsEnd(t, i) == IF i <= Len(t) /\ t[i] \in Digits THEN DigitsEnd(t, i + 1) ELSE i

\* (\d+\.?\d*) at i: the position after the number, 0 when there is none
PercentNumberEnd(t, i) ==
    LET d1 == DigitsEnd(t, i)
    IN  IF i < 1 \/ d1 = i THEN 0
        ELSE DigitsEnd(t, IF d1 <= Len(t) /\ t[d1] = "." THEN d1 + 1 ELSE d1)

\* (\d+(?:\.\d+)?) at i: the position after the number, 0 when there is none
VolumeNumberEnd(t, i) ==
    LET d1 == DigitsEnd(t, i)
    IN  IF i < 1 \/ d1 = i THEN 0
        ELSE IF d1 < Len(t) /\ t[d1] = "." /\ t[d1 + 1] \in Digits
             THEN DigitsEnd(t, d1 + 1)
             ELSE d1

MinOf(S) == CHOOSE i \in S : \A j \in S : i <= j

\* (?:ml|mL|ML|milliliters?), on lower-cased text
MillilitersAt(t, j) == MatchesAt(t, Chars("ml"), j) \/ MatchesAt(t, Chars("milliliter"), j)
\* (?:l|L|liters?)
LitersAt(t, j) == MatchesAt(t, Chars("l"), j) \/ MatchesAt(t, Chars("liter"), j)
\* (?:oz|ounces?)
OuncesAt(t, j) == MatchesAt(t, Chars("oz"), j) \/ MatchesAt(t, Chars("ounce"), j)
\* (?:fl\.?\s*oz)
FluidOuncesAt(t, j) ==
    /\ MatchesAt(t, Chars("fl"), j)
    /\ MatchesAt(t, Chars("oz"),
                 SkipWs(t, IF j + 2 <= Len(t) /\ t[j + 2] = "." THEN j + 3 ELSE j + 2))

PercentSignAt(t, j) == MatchesAt(t, Chars("%"), j)
PercentWordAt(t, j) == MatchesAt(t, Chars("percent"), j)

\* the number and the suffix of the patterns "number, \s*, suffix"
NumberEnd(pattern, t, i) ==
    IF pattern \in {"%", "percent"} THEN PercentNumberEnd(t, i) ELSE VolumeNumberEnd(t, i)

SuffixAt(pattern, t, j) ==
    CASE pattern = "ml" -> MillilitersAt(t, j)
      [] pattern = "l" -> LitersAt(t, j)
      [] pattern = "oz" -> OuncesAt(t, j)
      [] pattern = "fl oz" -> FluidOuncesAt(t, j)
      [] pattern = "%" -> PercentSignAt(t, j)
      [] pattern = "percent" -> PercentWordAt(t, j)

\* re.findall(pattern, t)[0]: the number of the leftmost match, or None
FirstNumberBefore(t, pattern) ==
    LET hits == {i \in 1..Len(t) :
                    /\ NumberEnd(pattern, t, i) # 0
                    /\ SuffixAt(pattern, t, SkipWs(t, NumberEnd(pattern, t, i)))}
    IN  IF hits = {} THEN None
        ELSE SubSeq(t, MinOf(hits), NumberEnd(pattern, t, MinOf(hits)) - 1)

\* re.findall(...)[0] for a pattern "prefix, \.?, \s*, (\d+\.?\d*)"
FirstNumberAfter(t, prefix, dotOptional) ==
    LET numStart(i) ==
            LET a == i + Len(prefix)
                b == IF dotOptional /\ a <= Len(t) /\ t[a] = "." THEN a + 1 ELSE a
            IN  SkipWs(t, b)
        \* without the optional '.', \s* can still be empty in front of a number
        hits == {i \in 1..Len(t) :
                    /\ MatchesAt(t, prefix, i)
                    /\ PercentNumberEnd(t, numStart(i)) # 0}
    IN  IF hits = {} THEN None
        ELSE SubSeq(t, numStart(MinOf(hits)), PercentNumberEnd(t, numStart(MinOf(hits))) - 1)

(***************************************************************************)
(* Numbers.  A percentage is kept in tenths of a percentage point: the      *)
(* labels and forms of this model carry at most one fractional digit.       *)
(***************************************************************************)
DigitChars == Chars("0123456789")
DigitVal(c) == (CHOOSE i \in 1..10 : DigitChars[i] = c) - 1

RECURSIVE IntOf(_, _, _)
IntOf(t, i, acc) ==
    IF i > Len(t) \/ t[i] \notin Digits THEN acc
    ELSE IntOf(t, i + 1, 10 * acc + DigitVal(t[i]))

\* float("NN"), float("NN."), float("NN.D") in tenths
TenthsOf(t) ==
    LET d1 == DigitsEnd(t, 1)
    IN  10 * IntOf(t, 1, 0) + (IF d1 + 1 <= Len(t) THEN DigitVal(t[d1 + 1]) ELSE 0)

RECURSIVE DigitsOfInt(_)
DigitsOfInt(n) ==
    IF n < 10 THEN <<DigitChars[n + 1]>>
    ELSE Append(DigitsOfInt(n \div 10), DigitChars[(n % 10) + 1])

\* str(x) of the float x = a/10: "45.0", "45.5", "0.0"
FormatFloat(a) == DigitsOfInt(a \div 10) \o <<".">> \o DigitsOfInt(a % 10)

(***************************************************************************)
(* IEEE-754 doubles.  float("a/10") is the double m / 2^k nearest to a/10,  *)
(* 2^52 <= m < 2^53, so a/10 = (m + r/10) / 2^k with r the residue of       *)
(* a * 2^k modulo 10 of least absolute value.                               *)
(***************************************************************************)
\* k - 46, for 1 <= a <= 1279
FloatScale(a) == CHOOSE k \in 0..10 : 640 <= a * 2^k /\ a * 2^k < 1280

\* r, in -4..4 (a * 2^k is even, so the residue is never 5)
FloatResidue(a) ==
    IF a = 0 THEN 0
    ELSE LET k == FloatScale(a) + 46
             p == IF k % 4 = 0 THEN 6 ELSE IF k % 4 = 1 THEN 2 ELSE IF k % 4 = 2 THEN 4 ELSE 8
             q == ((a % 10) * p) % 10
         IN  IF q > 5 THEN q - 10 ELSE q

\* float(x) - a/10, in units of 1 / (10 * 2^56)
FloatError(a) == IF a = 0 THEN 0 ELSE (0 - FloatResidue(a)) * 2^(10 - FloatScale(a))

\* abs(x - y) <= 0.5 for the doubles x = float(a/10), y = float(b/10).
\* The subtraction rounds to nearest, ties to even, and 0.5 is a double with
\* an even significand whose successor is 0.5 + 2^-53: the rounded difference
\* is at most 0.5 iff the exact one is at most 0.5 + 2^-54 = 0.5 + 40/(10 * 2^56).
abs_diff_le_half(a, b) ==
    LET hi == Max(a, b)
        lo == Min(a, b)
    IN  \/ hi - lo < 5
        \/ hi - lo = 5 /\ FloatError(hi) - FloatError(lo) <= 40

(***************************************************************************)
(* Field extractors                                                        *)
(***************************************************************************)
\* a faulty variant: the quantity that stands first in the text, of any unit
extract_volume_leftmost(text) ==
    LET t    == lower(text)
        hits == {i \in 1..Len(t) :
                    /\ VolumeNumberEnd(t, i) # 0
                    /\ \E pattern \in {"ml", "l", "oz", "fl oz"} :
                          SuffixAt(pattern, t, SkipWs(t, VolumeNumberEnd(t, i)))}
    IN  IF hits = {} THEN None
        ELSE SubSeq(t, MinOf(hits), VolumeNumberEnd(t, MinOf(hits)) - 1)

\* the captured number of the first pattern that occurs in text.lower(), or None
extract_volume(text) ==
    LET t  == lower(text)
        m1 == FirstNumberBefore(t, "ml")
        m2 == FirstNumberBefore(t, "l")
        m3 == FirstNumberBefore(t, "oz")
        m4 == FirstNumberBefore(t, "fl oz")
    IN  IF m1 # None THEN m1
        ELSE IF m2 # None THEN m2
        ELSE IF m3 # None THEN m3
        ELSE m4

\* a faulty variant: the patterns with "alc" are tried before those with "%"
extract_percentage_alc_first(text) ==
    LET t  == lower(text)
        m1 == FirstNumberBefore(t, "%")
        m2 == FirstNumberBefore(t, "percent")
        m3 == FirstNumberAfter(t, Chars("alc"), TRUE)
        m4 == FirstNumberAfter(t, Chars("alcohol"), FALSE)
        m  == IF m3 # None THEN m3
              ELSE IF m4 # None THEN m4
              ELSE IF m1 # None THEN m1
              ELSE m2
    IN  IF m = None THEN NoNumber ELSE << TenthsOf(m) >>

\* float(matches[0]) of the first pattern that occurs, in tenths, or no number
extract_percentage(text) ==
    LET t  == lower(text)
        m1 == FirstNumberBefore(t, "%")
        m2 == FirstNumberBefore(t, "percent")
        m3 == FirstNumberAfter(t, Chars("alc"), TRUE)
        m4 == FirstNumberAfter(t, Chars("alcohol"), FALSE)
        m  == IF m1 # None THEN m1
              ELSE IF m2 # None THEN m2
              ELSE IF m3 # None THEN m3
              ELSE m4
    IN  IF m = None THEN NoNumber ELSE << TenthsOf(m) >>

\* text.split('\n')
split_lines(t) ==
    FoldRange(LAMBDA acc, i :
                  IF t[i] = "\n" THEN Append(acc, <<>>)
                  ELSE [acc EXCEPT ![Len(acc)] = Append(@, t[i])],
              << <<>> >>, 1, Len(t))

\* a faulty variant: lines of a single character are not skipped
extract_brand_name_any_line(text) ==
    LET lines == split_lines(strip(text))
        good  == {i \in 1..Len(lines) : Len(strip(lines[i])) > 0}
    IN  IF good = {} THEN None ELSE strip(lines[MinOf(good)])

extract_brand_name(text) ==
    LET lines == split_lines(strip(text))
        good  == {i \in 1..Len(lines) : Len(strip(lines[i])) > 1}
    IN  IF good = {} THEN None ELSE strip(lines[MinOf(good)])

product_types ==
    << Chars("bourbon whiskey"), Chars("bourbon"), Chars("whiskey"), Chars("whisky"),
       Chars("vodka"), Chars("rum"), Chars("gin"), Chars("tequila"), Chars("brandy"),
       Chars("scotch"), Chars("rye"), Chars("cognac"), Chars("beer"), Chars("wine"),
       Chars("kentucky straight bourbon whiskey") >>

IsLetter(c) == c \in UpperSet \/ c \in LowerSet

\* str.title()
title(t) ==
    << >> \o [i \in 1..Len(t) |->
        IF i = 1 \/ ~IsLetter(t[i - 1])
        THEN IF t[i] \in LowerSet THEN UpperOf[t[i]] ELSE t[i]
        ELSE IF t[i] \in UpperSet THEN LowerOf[t[i]] ELSE t[i]]

extract_product_type(text) ==
    LET text_lower == lower(text)
        found == {i \in 1..Len(product_types) : Contains(text_lower, product_types[i])}
        \* max(found_types, key=len): the first of the longest ones
        best  == CHOOSE i \in found :
                    \A j \in found :
                        \/ Len(product_types[j]) < Len(product_types[i])
                        \/ Len(product_types[j]) = Len(product_types[i]) /\ i <= j
    IN  IF found = {} THEN None ELSE title(product_types[best])

sulfite_patterns ==
    << Chars("contains sulfites"), Chars("contains sulphites"),
       Chars("sulfite"), Chars("sulphite") >>

check_sulfite_declaration(text) ==
    \E i \in 1..Len(sulfite_patterns) : Contains(lower(text), sulfite_patterns[i])

WordChars == Digits \cup UpperSet \cup LowerSet \cup {"_"}

\* \b(19\d{2}|20\d{2})\b at position i
YearAt(t, i) ==
    /\ i + 3 <= Len(t)
    /\ i = 1 \/ t[i - 1] \notin WordChars
    /\ i + 4 > Len(t) \/ t[i + 4] \notin WordChars
    /\ <<t[i], t[i + 1]>> \in {<<"1", "9">>, <<"2", "0">>}
    /\ t[i + 2] \in Digits
    /\ t[i + 3] \in Digits

check_vintage_year(text) ==
    LET hits == {i \in 1..Len(text) : YearAt(text, i)}
    IN  IF hits = {} THEN NoNumber ELSE << IntOf(SubSeq(text, 1, MinOf(hits) + 3), MinOf(hits), 0) >>

ingredient_keywords ==
    << Chars("ingredients"), Chars("contains"), Chars("water"), Chars("barley"),
       Chars("hops"), Chars("yeast"), Chars("malt") >>

\* a faulty variant: one keyword is enough
check_ingredients_list_any(text) ==
    LET text_lower == lower(text)
        found_count == Cardinality({i \in 1..Len(ingredient_keywords) :
                                        Contains(text_lower, ingredient_keywords[i])})
    IN  found_count >= 1

check_ingredients_list(text) ==
    LET text_lower == lower(text)
        found_count == Cardinality({i \in 1..Len(ingredient_keywords) :
                                        Contains(text_lower, ingredient_keywords[i])})
    IN  found_count >= 2

(***************************************************************************)
(* Fuzzy matcher: <<matched, found_text>>                                  *)
(***************************************************************************)
\* a faulty variant: the loop runs at least once, on a window that may hold
\* fewer words than the pattern
BestWindow_at_least_once(text, words, k, pattern_norm, num, den) ==
    FoldRange(LAMBDA best, i :
                  With(ratio(JoinWords(words, i, i + k), pattern_norm), LAMBDA similarity :
                      IF AtLeast(similarity, num, den) /\ Greater(similarity, best.similarity)
                      THEN [similarity |-> similarity,
                            match |-> JoinWords(split(text), i, i + k)]
                      ELSE best),
              [similarity |-> <<0, 1>>, match |-> None], 0, Max(0, Len(words) - k))

\* the loop over the windows i = 0 .. len(words) - len(pattern_words)
BestWindow(text, words, k, pattern_norm, num, den) ==
    FoldRange(LAMBDA best, i :
                  With(ratio(JoinWords(words, i, i + k), pattern_norm), LAMBDA similarity :
                      IF AtLeast(similarity, num, den) /\ Greater(similarity, best.similarity)
                      THEN [similarity |-> similarity,
                            match |-> JoinWords(split(text), i, i + k)]
                      ELSE best),
              [similarity |-> <<0, 1>>, match |-> None], 0, Len(words) - k)

\* a faulty variant: the pattern is compared as given, not normalized
fuzzy_match_pattern_as_given(text, pattern, num, den) ==
    With(normalize_text(text), LAMBDA text_norm :
        IF Contains(text_norm, pattern)
        THEN With(IndexOf(text_norm, pattern) - 1, LAMBDA idx :
                 <<TRUE, Slice(text, idx, idx + Len(pattern))>>)
        ELSE With(BestWindow(text, split(text_norm), Len(split(pattern)),
                             pattern, num, den), LAMBDA best :
                 IF best.match # None /\ best.match # <<>>
                 THEN <<TRUE, best.match>>
                 ELSE <<FALSE, None>>))

\* a faulty variant: the windows are made of the words of the text as given
fuzzy_match_words_as_given(text, pattern, num, den) ==
    With(normalize_text(text), LAMBDA text_norm :
    With(normalize_text(pattern), LAMBDA pattern_norm :
        IF Contains(text_norm, pattern_norm)
        THEN With(IndexOf(text_norm, pattern_norm) - 1, LAMBDA idx :
                 <<TRUE, Slice(text, idx, idx + Len(pattern))>>)
        ELSE With(BestWindow(text, split(text), Len(split(pattern_norm)),
                             pattern_norm, num, den), LAMBDA best :
                 IF best.match # None /\ best.match # <<>>
                 THEN <<TRUE, best.match>>
                 ELSE <<FALSE, None>>)))

\* threshold = num/den
fuzzy_match(text, pattern, num, den) ==
    With(normalize_text(text), LAMBDA text_norm :
    With(normalize_text(pattern), LAMBDA pattern_norm :
        IF Contains(text_norm, pattern_norm)
        THEN With(IndexOf(text_norm, pattern_norm) - 1, LAMBDA idx :
                 <<TRUE, Slice(text, idx, idx + Len(pattern))>>)
        ELSE With(BestWindow(text, split(text_norm), Len(split(pattern_norm)),
                             pattern_norm, num, den), LAMBDA best :
                 IF best.match # None /\ best.match # <<>>
                 THEN <<TRUE, best.match>>
                 ELSE <<FALSE, None>>)))

(***************************************************************************)
(* Compliance checker                                                      *)
(***************************************************************************)
REQUIRED_WARNING_TEXT ==
    "GOVERNMENT WARNING: (1) According to the Surgeon General, women should not drink alcoholic beverages during pregnancy because of the risk of birth defects. (2) Consumption of alcoholic beverages impairs your ability to drive a car or operate machinery, and may cause health problems."

\* a faulty variant: the span is greedy, it runs to the end of the text
extract_government_warning_greedy(text) ==
    LET t      == lower(text)
        header == Chars("government warning:")
        starts == {i \in 1..Len(t) : MatchesAt(t, header, i)}
    IN  IF starts = {} THEN None
        ELSE strip(collapse_ws(SubSeq(text, MinOf(starts), Len(t))))

\* re.search(r'GOVERNMENT WARNING:.*?(?:health problems|$)', text,
\*           re.IGNORECASE | re.DOTALL), whitespace collapsed and stripped
extract_government_warning(text) ==
    LET t      == lower(text)
        header == Chars("government warning:")
        close  == Chars("health problems")
        starts == {i \in 1..Len(t) : MatchesAt(t, header, i)}
        start  == MinOf(starts)
        \* '$' matches at the end of the text and in front of a final line break
        ends   == {q \in (start + Len(header))..(Len(t) + 1) :
                      \/ MatchesAt(t, close, q)
                      \/ q = Len(t) + 1
                      \/ q = Len(t) /\ t[q] = "\n"}
        q0     == MinOf(ends)
        stop   == IF MatchesAt(t, close, q0) THEN q0 + Len(close) ELSE q0
    IN  IF starts = {} THEN None
        ELSE strip(collapse_ws(SubSeq(text, start, stop - 1)))

\* a faulty variant: the last phrase carries the full stop of the reference text
required_phrases_with_period ==
    << <<"women should not drink", "women and pregnancy warning">>,
       <<"birth defects", "birth defects warning">>,
       <<"drive a car or operate machinery", "driving/machinery warning">>,
       <<"health problems.", "health problems warning">> >>

required_phrases ==
    << <<"women should not drink", "women and pregnancy warning">>,
       <<"birth defects", "birth defects warning">>,
       <<"drive a car or operate machinery", "driving/machinery warning">>,
       <<"health problems", "health problems warning">> >>

RECURSIVE MissingPhrases_first_only(_, _)
\* a faulty variant: the loop stops at the first phrase that is missing
MissingPhrases_first_only(warning_lower, i) ==
    IF i > Len(required_phrases) THEN <<>>
    ELSE IF ~Contains(warning_lower, Chars(required_phrases[i][1]))
    THEN << "Missing required phrase: '" \o required_phrases[i][2] \o "'" >>
    ELSE MissingPhrases_first_only(warning_lower, i + 1)

RECURSIVE MissingPhrases(_, _)
\* for phrase, description in required_phrases: if phrase not in warning_lower: ...
MissingPhrases(warning_lower, i) ==
    IF i > Len(required_phrases) THEN <<>>
    ELSE (IF ~Contains(warning_lower, Chars(required_phrases[i][1]))
          THEN << "Missing required phrase: '" \o required_phrases[i][2] \o "'" >>
          ELSE <<>>)
         \o MissingPhrases(warning_lower, i + 1)

\* the sub-checks of a located warning: the violations in the order of the
\* source, and the local variable similarity
warning_violations(warning_text) ==
    LET warning_lower == lower(warning_text)
        v1 == IF /\ ~Contains(warning_text, Chars("GOVERNMENT WARNING:"))
                 /\ Contains(warning_lower, Chars("government warning:"))
              THEN << "'GOVERNMENT WARNING' must be in all capital letters" >>
              ELSE <<>>
        v2 == IF /\ Contains(warning_lower, Chars("surgeon general"))
                 /\ ~Contains(warning_text, Chars("Surgeon General"))
              THEN << "'Surgeon General' must have capital S and capital G" >>
              ELSE <<>>
        has_statement_1 == Contains(warning_text, Chars("(1)")) \/ Contains(warning_text, Chars("1)"))
        has_statement_2 == Contains(warning_text, Chars("(2)")) \/ Contains(warning_text, Chars("2)"))
        v3 == (IF ~has_statement_1
               THEN << "Statement (1) about pregnancy and birth defects is missing" >>
               ELSE <<>>)
              \o (IF ~has_statement_2
                  THEN << "Statement (2) about driving/machinery is missing" >>
                  ELSE <<>>)
        v4 == MissingPhrases(warning_lower, 1)
    IN  With(ratio(normalize_text(Chars(REQUIRED_WARNING_TEXT)),
                   normalize_text(warning_text)), LAMBDA similarity :
            \* the source prints the similarity as a percentage; here the exact fraction
            [violations |->
                 v1 \o v2 \o v3 \o v4
                 \o (IF ~AtLeast(similarity, 90, 100)
                     THEN << "Warning text differs from required regulatory text (similarity: "
                             \o Str(DigitsOfInt(similarity[1])) \o "/"
                             \o Str(DigitsOfInt(similarity[2])) \o ")" >>
                     ELSE <<>>),
             similarity |-> similarity])

\* a faulty variant: no early return when no warning is located, the sub-checks
\* run on an empty text
validate_warning_compliance_no_return(extracted_text) ==
    With(extract_government_warning(extracted_text), LAMBDA warning_text :
    With(warning_text # None /\ warning_text # <<>>, LAMBDA located :
    With(warning_violations(IF located THEN warning_text ELSE <<>>), LAMBDA v :
    With((IF located THEN <<>> ELSE << "Government warning statement not found" >>)
         \o v.violations, LAMBDA violations :
        [is_compliant |-> Len(violations) = 0, violations |-> violations,
         warning_text |-> warning_text, similarity |-> v.similarity]))))

\* the returned pair (is_compliant, violations), with the local variables
\* warning_text and similarity (no number when the function returned early)
validate_warning_compliance(extracted_text) ==
    With(extract_government_warning(extracted_text), LAMBDA warning_text :
        IF warning_text = None \/ warning_text = <<>>
        THEN [is_compliant |-> FALSE,
              violations |-> << "Government warning statement not found" >>,
              warning_text |-> warning_text, similarity |-> NoNumber]
        ELSE With(warning_violations(warning_text), LAMBDA v :
                 [is_compliant |-> Len(v.violations) = 0, violations |-> v.violations,
                  warning_text |-> warning_text, similarity |-> v.similarity]))

(***************************************************************************)
(* Result records (app/models.py).  The marks of the messages are written   *)
(* in ASCII: [ok] for the check mark, [x] for the cross, [i] for the        *)
(* information sign, [OK] and [FAIL] for the two marks of the summary.      *)
(***************************************************************************)
BeverageType == {"spirits", "wine", "beer"}

FieldCheck(field_name, expected_value, found_value, matched, message) ==
    [field_name |-> field_name, expected_value |-> expected_value,
     found_value |-> found_value, matched |-> matched, message |-> message]

\* word_boxes is optional and None unless it is given
VerificationResponse(success, overall_match, message, extracted_text, checks) ==
    [success |-> success, overall_match |-> overall_match, message |-> message,
     extracted_text |-> extracted_text, checks |-> checks, word_boxes |-> None]

\* ', '.join(names)
JoinNames(names) ==
    FoldRange(LAMBDA acc, i : IF i = 1 THEN names[i] ELSE acc \o ", " \o names[i],
              "", 1, Len(names))

\* '; '.join(violations)
JoinViolations(violations) ==
    FoldRange(LAMBDA acc, i : IF i = 1 THEN violations[i] ELSE acc \o "; " \o violations[i],
              "", 1, Len(violations))

\* [check.field_name for check in checks if not check.matched
\*                                        and check.field_name != "Government Warning"]
failed_checks(checks) ==
    FoldRange(LAMBDA acc, i :
                  IF ~checks[i].matched /\ checks[i].field_name # "Government Warning"
                  THEN Append(acc, checks[i].field_name)
                  ELSE acc,
              <<>>, 1, Len(checks))

(***************************************************************************)
(* Verification orchestrator.  The texts are strings; alcohol_content is    *)
(* in tenths; net_contents is << >> for None and << string >> otherwise.    *)
(***************************************************************************)
brand_check(text, brand_name) ==
    With(fuzzy_match(text, Chars(brand_name), 3, 4), LAMBDA m :
    \* "if not found_brand": None and the empty string both take the fallback
    With(IF m[2] = None \/ m[2] = <<>> THEN extract_brand_name(text) ELSE m[2],
         LAMBDA found_brand :
        FieldCheck("Brand Name", brand_name,
                   IF found_brand = None \/ found_brand = <<>> THEN "Not found"
                   ELSE Str(found_brand),
                   m[1],
                   IF m[1]
                   THEN "[ok] Brand name '" \o brand_name \o "' found on label"
                   ELSE "[x] Brand name '" \o brand_name \o "' not found on label")))

product_check(text, product_class) ==
    With(fuzzy_match(text, Chars(product_class), 3, 4), LAMBDA m :
    With(IF m[2] = None \/ m[2] = <<>> THEN extract_product_type(text) ELSE m[2],
         LAMBDA found_product :
        FieldCheck("Product Class/Type", product_class,
                   IF found_product = None \/ found_product = <<>> THEN "Not found"
                   ELSE Str(found_product),
                   m[1],
                   IF m[1]
                   THEN "[ok] Product class '" \o product_class \o "' found on label"
                   ELSE "[x] Product class '" \o product_class \o "' not found on label")))

\* a faulty variant: without the else branch of "if extracted_abv is not None",
\* abv_message keeps its initial value ""
alcohol_check_no_else(extracted_abv, alcohol_content) ==
    With(Str(FormatFloat(alcohol_content)), LAMBDA claimed :
    With(IF extracted_abv = NoNumber THEN "" ELSE Str(FormatFloat(extracted_abv[1])),
         LAMBDA found :
    With(/\ extracted_abv # NoNumber
         /\ abs_diff_le_half(extracted_abv[1], alcohol_content), LAMBDA abv_matched :
        FieldCheck("Alcohol Content", claimed \o "%",
                   IF extracted_abv # NoNumber /\ extracted_abv[1] # 0
                   THEN found \o "%" ELSE "Not found",
                   abv_matched,
                   IF extracted_abv # NoNumber
                   THEN IF abv_matched
                        THEN "[ok] Alcohol content " \o found \o "% matches form ("
                             \o claimed \o "%)"
                        ELSE "[x] Alcohol content on label (" \o found
                             \o "%) differs from form (" \o claimed \o "%)"
                   ELSE ""))))

\* the Alcohol Content check, from extracted_abv = extract_percentage(text)
alcohol_check(extracted_abv, alcohol_content) ==
    With(Str(FormatFloat(alcohol_content)), LAMBDA claimed :
    With(IF extracted_abv = NoNumber THEN "" ELSE Str(FormatFloat(extracted_abv[1])),
         LAMBDA found :
    With(/\ extracted_abv # NoNumber
         /\ abs_diff_le_half(extracted_abv[1], alcohol_content), LAMBDA abv_matched :
        FieldCheck("Alcohol Content", claimed \o "%",
                   \* "if extracted_abv": None and 0.0 are both false
                   IF extracted_abv # NoNumber /\ extracted_abv[1] # 0
                   THEN found \o "%" ELSE "Not found",
                   abv_matched,
                   IF extracted_abv # NoNumber
                   THEN IF abv_matched
                        THEN "[ok] Alcohol content " \o found \o "% matches form ("
                             \o claimed \o "%)"
                        ELSE "[x] Alcohol content on label (" \o found
                             \o "%) differs from form (" \o claimed \o "%)"
                   ELSE "[x] Could not find alcohol content on label (expected "
                        \o claimed \o "%)"))))

\* re.search(r'(\d+(?:\.\d+)?)', net_contents): the first number, or None
form_volume_of(net) ==
    LET hits == {i \in 1..Len(net) : VolumeNumberEnd(net, i) # 0}
    IN  IF hits = {} THEN None
        ELSE SubSeq(net, MinOf(hits), VolumeNumberEnd(net, MinOf(hits)) - 1)

\* the Net Contents check appended for a claim that holds a number, from
\* extracted_volume = extract_volume(text)
net_contents_check(extracted_volume, net_contents, net_matched) ==
    With(extracted_volume # None /\ extracted_volume # <<>>, LAMBDA found :
        FieldCheck("Net Contents", net_contents,
                   IF found THEN Str(extracted_volume) \o " mL" ELSE "Not found",
                   net_matched,
                   IF net_matched
                   THEN "[ok] Net contents '" \o net_contents \o "' found on label"
                   ELSE IF found
                   THEN "[x] Net contents on label (" \o Str(extracted_volume)
                        \o " mL) differs from form (" \o net_contents \o ")"
                   ELSE "[x] Net contents '" \o net_contents \o "' not found on label"))

\* a faulty variant: the claimed number is searched inside the extracted one
net_contents_checks_substring(text, net_contents) ==
    IF net_contents = <<>> \/ net_contents[1] = "" THEN <<>>
    ELSE With(form_volume_of(Chars(net_contents[1])), LAMBDA form_volume :
         With(extract_volume(text), LAMBDA extracted_volume :
             IF form_volume = None THEN <<>>
             ELSE << net_contents_check(extracted_volume, net_contents[1],
                         /\ extracted_volume # None /\ extracted_volume # <<>>
                         /\ Contains(extracted_volume, form_volume)) >>))

\* a faulty variant: a claim without a number fails the verification
net_contents_checks_strict(text, net_contents) ==
    IF net_contents = <<>> THEN <<>>
    ELSE With(form_volume_of(Chars(net_contents[1])), LAMBDA form_volume :
         With(extract_volume(text), LAMBDA extracted_volume :
             << net_contents_check(extracted_volume, net_contents[1],
                    /\ form_volume # None
                    /\ extracted_volume # None /\ extracted_volume # <<>>
                    /\ form_volume = extracted_volume) >>))

\* the Net Contents checks: none or one
net_contents_checks(text, net_contents) ==
    IF net_contents = <<>> \/ net_contents[1] = "" THEN <<>>
    ELSE With(form_volume_of(Chars(net_contents[1])), LAMBDA form_volume :
         With(extract_volume(text), LAMBDA extracted_volume :
             IF form_volume = None THEN <<>>
             ELSE << net_contents_check(extracted_volume, net_contents[1],
                         /\ extracted_volume # None /\ extracted_volume # <<>>
                         /\ form_volume = extracted_volume) >>))

\* the fields FieldCheck declares (bounding_boxes, which no check is given, aside)
FieldCheckFields == { "field_name", "expected_value", "found_value", "matched", "message" }

\* FieldCheck(**kwargs): the model keeps its declared fields; a keyword that
\* names none of them is ignored
FieldCheckOf(kwargs) == [f \in DOMAIN kwargs \cap FieldCheckFields |-> kwargs[f]]

\* the Government Warning check, from the result of validate_warning_compliance;
\* it is constructed with the keyword violations=...
warning_check(warning) ==
    FieldCheckOf(
        [field_name     |-> "Government Warning (Detailed)",
         expected_value |-> "27 CFR 16.21 compliant warning",
         found_value    |-> IF warning.is_compliant THEN "Compliant"
                            ELSE "Non-compliant (" \o Str(DigitsOfInt(Len(warning.violations)))
                                 \o " violations)",
         matched        |-> warning.is_compliant,
         message        |-> IF warning.is_compliant
                            THEN "[ok] Government warning complies with 27 CFR 16.21 requirements"
                            ELSE "[x] Warning non-compliant: " \o JoinViolations(warning.violations),
         violations     |-> IF ~warning.is_compliant THEN warning.violations ELSE None])

\* a faulty variant: the warning check is appended before the net contents
field_checks_warning_first(brand, product, abv, net, warning) ==
    << brand, product, abv, warning >> \o net

\* the checks.append calls of the checks every beverage has, in their order
field_checks(brand, product, abv, net, warning) ==
    << brand, product, abv >> \o net \o << warning >>

sulfite_check(text) ==
    With(check_sulfite_declaration(text), LAMBDA sulfite_found :
        FieldCheck("Sulfite Declaration", "Contains Sulfites",
                   IF sulfite_found THEN "Present" ELSE "Not found",
                   sulfite_found,
                   IF sulfite_found THEN "[ok] Sulfite declaration found on label"
                   ELSE "[x] Sulfite declaration not found (required for wine)"))

vintage_check(text) ==
    With(check_vintage_year(text), LAMBDA vintage_year :
    With(IF vintage_year = NoNumber THEN "" ELSE Str(DigitsOfInt(vintage_year[1])),
         LAMBDA year :
        FieldCheck("Vintage Year", "Vintage year (if applicable)",
                   IF vintage_year # NoNumber /\ vintage_year[1] # 0 THEN year ELSE "Not found",
                   vintage_year # NoNumber,
                   IF vintage_year # NoNumber /\ vintage_year[1] # 0
                   THEN "[ok] Vintage year " \o year \o " found on label"
                   ELSE "[i] No vintage year found (optional for some wines)")))

ingredients_check(text) ==
    With(check_ingredients_list(text), LAMBDA ingredients_found :
        FieldCheck("Ingredients", "Ingredients list",
                   IF ingredients_found THEN "Present" ELSE "Not found",
                   ingredients_found,
                   IF ingredients_found THEN "[ok] Ingredients list found on label"
                   ELSE "[i] Ingredients list not detected (optional but common)"))

\* a faulty variant: the sulfite declaration does not count for the verdict
wine_checks_sulfite_optional(text, all_matched) ==
    [checks |-> << sulfite_check(text), vintage_check(text) >>, all_matched |-> all_matched]

\* if beverage_type == BeverageType.WINE: the checks appended, and all_matched
wine_checks(text, all_matched) ==
    With(sulfite_check(text), LAMBDA sulfite :
        [checks |-> << sulfite, vintage_check(text) >>,
         all_matched |-> all_matched /\ sulfite.matched])

\* elif beverage_type == BeverageType.BEER
beer_checks(text, all_matched) ==
    [checks |-> << ingredients_check(text) >>, all_matched |-> all_matched]

\* the VerificationResponse returned, with the local variables extracted_abv
\* and (warning_compliant, violations, as returned by validate_warning_compliance)
verify_label_data(extracted_text, brand_name, product_class, alcohol_content, net_contents, beverage_type) ==
    With(Chars(extracted_text), LAMBDA text :
    With(brand_check(text, brand_name), LAMBDA brand :
    With(product_check(text, product_class), LAMBDA product :
    With(extract_percentage(text), LAMBDA extracted_abv :
    With(alcohol_check(extracted_abv, alcohol_content), LAMBDA abv :
    With(net_contents_checks(text, net_contents), LAMBDA net :
    With(validate_warning_compliance(text), LAMBDA warning :
    \* all_matched after the checks every beverage has
    With(/\ brand.matched /\ product.matched /\ abv.matched
         /\ \A i \in 1..Len(net) : net[i].matched
         /\ warning.is_compliant, LAMBDA all5 :
    With(IF beverage_type = "wine" THEN wine_checks(text, all5)
         ELSE IF beverage_type = "beer" THEN beer_checks(text, all5)
         ELSE [checks |-> <<>>, all_matched |-> all5], LAMBDA specific :
    With(field_checks(brand, product, abv, net, warning_check(warning))
         \o specific.checks, LAMBDA checks :
    With(specific.all_matched, LAMBDA all_matched :
        [response |->
             VerificationResponse(
                 TRUE, all_matched,
                 IF all_matched
                 THEN "[OK] The " \o beverage_type
                      \o " label matches the form data. All required information is consistent."
                 ELSE "[FAIL] The " \o beverage_type
                      \o " label does not match the form. Issues found in: "
                      \o JoinNames(failed_checks(checks)),
                 extracted_text, checks),
         locals |-> [extracted_abv |-> extracted_abv, warning |-> warning]])))))))))))

(***************************************************************************)
(* The requests of the model.  A request is the reference scenario of the   *)
(* tests (test_perfect_match) changed in at most MaxDeviations of its ten    *)
(* parts: five parts of the label text, five fields of the form.  The first  *)
(* alternative of every part is the reference.                               *)
(***************************************************************************)
MaxDeviations == 2

LabelHead ==
    << "EAGLE PEAK\nKENTUCKY STRAIGHT BOURBON WHISKEY\n",
       "Eagie  Peak\nBourbon Whisky\n",
       " \nX\nOLD TOM GIN\n" >>

LabelAbv ==
    << "45% Alc./Vol.\n", "45.5% ABV\n", "44.5 %\n", "45.6%\n", "44.4%\n", "16.1%\n", "" >>

LabelVolume == << "750 mL\n", "1750 mL\n", "" >>

LabelExtra ==
    << "", "Contains Sulfites\n", "Contains Sulfites\nVintage 2019\n",
       "Ingredients: water, barley\n" >>

\* the reference warning; "Surgeon General" in lower case; statement (2) missing
\* (the three labels of create_compliance_test_labels.py); a header in mixed
\* case with "surgeon general" and no "(1)"; no warning
LabelWarning ==
    << REQUIRED_WARNING_TEXT \o "\n",
       "GOVERNMENT WARNING: (1) According to the surgeon general, women should not drink alcoholic beverages during pregnancy because of the risk of birth defects. (2) Consumption of alcoholic beverages impairs your ability to drive a car or operate machinery, and may cause health problems.\n",
       "GOVERNMENT WARNING: (1) According to the Surgeon General,\nwomen should not drink alcoholic beverages during pregnancy\nbecause of the risk of birth defects.\n",
       "Government Warning: According to the surgeon general, women should not drink alcoholic beverages during pregnancy because of the risk of birth defects. (2) Consumption of alcoholic beverages impairs your ability to drive a car or operate machinery, and may cause health problems.\n",
       "" >>

FormBrand == << "Eagle Peak", "Mountain Ridge" >>
FormProduct == << "Bourbon Whiskey", "Vodka" >>
FormAlcohol == << 450, 156 >>
FormNetContents == << << "750" >>, << >>, << "" >>, << "large" >>, << "750 mL" >>, << "75" >> >>
FormBeverage == << "spirits", "wine", "beer" >>

Parts ==
    << LabelHead, LabelAbv, LabelVolume, LabelExtra, LabelWarning,
       FormBrand, FormProduct, FormAlcohol, FormNetContents, FormBeverage >>

\* the choices that differ from the reference exactly in the parts D
ChoicesIn(D) ==
    { [d \in 1..Len(Parts) |-> IF d \in D THEN g[d] ELSE 1] :
        g \in { h \in [D -> 2..8] : \A d \in D : h[d] <= Len(Parts[d]) } }

Choices ==
    UNION { ChoicesIn(D) : D \in { E \in SUBSET (1..Len(Parts)) : Cardinality(E) <= MaxDeviations } }

RequestOf(c) ==
    [extracted_text  |-> LabelHead[c[1]] \o LabelAbv[c[2]] \o LabelVolume[c[3]]
                         \o LabelExtra[c[4]] \o LabelWarning[c[5]],
     brand_name      |-> FormBrand[c[6]],
     product_class   |-> FormProduct[c[7]],
     alcohol_content |-> FormAlcohol[c[8]],
     net_contents    |-> FormNetContents[c[9]],
     beverage_type   |-> FormBeverage[c[10]]]

\* labels on which little or nothing was read: no line, lines of one
\* character, the claimed names alone, an alcohol content of zero
SparseTexts ==
    { "", "X", " \n \n", "A\nB\n7\n", "Mountain Ridge\nVodka\n",
      "  Eagle Peak\n0% 750 mL\n", "Alc. 0.4 by vol\nX\n" }

SparseRequests ==
    { [extracted_text  |-> t, brand_name |-> b, product_class |-> p,
       alcohol_content |-> a, net_contents |-> << >>, beverage_type |-> "spirits"] :
        t \in SparseTexts, b \in { FormBrand[i] : i \in 1..Len(FormBrand) },
        p \in { FormProduct[i] : i \in 1..Len(FormProduct) }, a \in { FormAlcohol[1], 0 } }

Requests == { RequestOf(c) : c \in Choices } \cup SparseRequests

(***************************************************************************)
(* One verification service: a request arrives, verify_label_data answers.  *)
(***************************************************************************)
VARIABLES pc, request, response, locals
vars == <<pc, request, response, locals>>

NoRequest == [kind |-> "none"]
NoResponse == [kind |-> "none"]
NoLocals == [kind |-> "none"]

Init ==
    /\ pc = "idle"
    /\ request = NoRequest
    /\ response = NoResponse
    /\ locals = NoLocals

Receive ==
    /\ pc = "idle"
    /\ \E r \in Requests : request' = r
    /\ response' = NoResponse
    /\ locals' = NoLocals
    /\ pc' = "received"

Verify ==
    /\ pc = "received"
    \* the one value of the call, computed once
    /\ \E r \in {verify_label_data(request.extracted_text, request.brand_name,
                                    request.product_class, request.alcohol_content,
                                    request.net_contents, request.beverage_type)} :
           response' = r.response /\ locals' = r.locals
    /\ pc' = "done"
    /\ UNCHANGED request

\* the verdict has been returned to the caller; nothing is kept between calls
Return ==
    /\ pc = "done"
    /\ pc' = "idle"
    /\ request' = NoRequest
    /\ response' = NoResponse
    /\ locals' = NoLocals

Next == Receive \/ Verify \/ Return

Spec == Init /\ [][Next]_vars

(***************************************************************************)
(* One call of fuzzy_match(text, pattern, threshold).  The haystacks and    *)
(* needles are those of TestFuzzyMatching and TestTextNormalization, with   *)
(* leading whitespace, line breaks and runs of spaces, and the corner       *)
(* cases: the empty and the whitespace-only string, a needle with more      *)
(* words than the haystack, a needle that shares no character with it.      *)
(* The thresholds are fractions <<num, den>> that are doubles exactly.      *)
(***************************************************************************)
Haystacks ==
    { "Eagle Peak Bourbon", "EAGLE PEAK BOURBON", "Eagie Peak Bourbon",
      "B0URB0N WHISKEY", "Eagle  Peak   Bourbon", "Vodka Brand",
      "Eagle Peaks Bourbon", "  Eagle Peak  ", "Old\nEagle\nPeak Bourbon",
      "Eagle", "xyz", " \t", "" }

Needles ==
    Haystacks \cup
    { "Eagle Peak", "eagle peak", "BOURBON WHISKEY", "Bourbon Brand",
      "Eagle  Peak", " Peak\n", "Eagle Peak Bourbon Whiskey", "q", "  " }

Thresholds == { <<0, 1>>, <<1, 2>>, <<3, 4>>, <<1, 1>> }

MatchRequests ==
    { [text |-> h, pattern |-> n, threshold |-> t] :
        h \in Haystacks, n \in Needles, t \in Thresholds }

\* the call is entered with its arguments
MatchInit ==
    /\ pc = "fuzzy_match"
    /\ request \in MatchRequests
    /\ response = NoResponse
    /\ locals = NoLocals

\* the body of fuzzy_match: the returned pair, and the local variables
\* text_norm, pattern_norm, words and pattern_words
FuzzyMatch ==
    /\ pc = "fuzzy_match"
    /\ response' = fuzzy_match(Chars(request.text), Chars(request.pattern),
                               request.threshold[1], request.threshold[2])
    /\ locals' = [text_norm     |-> normalize_text(Chars(request.text)),
                  pattern_norm  |-> normalize_text(Chars(request.pattern)),
                  words         |-> split(normalize_text(Chars(request.text))),
                  pattern_words |-> split(normalize_text(Chars(request.pattern)))]
    /\ pc' = "returned"
    /\ UNCHANGED request

MatchNext == FuzzyMatch

MatchSpec == MatchInit /\ [][MatchNext]_vars

(***************************************************************************)
(* One call of validate_warning_compliance on a label text in which the     *)
(* text recognition has put a line break in the place of one space of the   *)
(* warning statement.  The labels are the reference label with each of the  *)
(* warnings of LabelWarning, the last thing on the label or followed by the *)
(* bottler's line.                                                          *)
(***************************************************************************)
LabelTail == { "", "Bottled by Eagle Peak Distillery, Bardstown, Kentucky\n" }

WarningLabels ==
    { LabelHead[1] \o LabelAbv[1] \o LabelVolume[1] \o LabelWarning[w] \o tail :
        w \in 1..4, tail \in LabelTail }

\* the positions of the spaces of the warning statement of the text t: from
\* the header to the end of the closing phrase, or to the end of the text
\* when the statement has no closing phrase
SpacesOfWarning(t) ==
    LET l      == lower(t)
        header == Chars("government warning:")
        close  == Chars("health problems")
        first  == IndexOf(l, header)
        closes == { q \in first..Len(l) : MatchesAt(l, close, q) }
        last   == IF closes = {} THEN Len(l) ELSE MinOf(closes) + Len(close) - 1
    IN  { i \in first..last : t[i] = " " }

WarningRequests ==
    UNION { { [extracted_text |-> t, line_break |-> i] : i \in SpacesOfWarning(Chars(t)) } :
            t \in WarningLabels }

\* the text t with a line break in the place of the character at i
BrokenAt(t, i) == [t EXCEPT ![i] = "\n"]

WarningInit ==
    /\ pc = "validate_warning_compliance"
    /\ request \in WarningRequests
    /\ response = NoResponse
    /\ locals = NoLocals

\* validate_warning_compliance on the text as recognized (response), and on
\* the text as printed, with the space (locals.printed)
ValidateWarningCompliance ==
    /\ pc = "validate_warning_compliance"
    /\ response' = validate_warning_compliance(
                       BrokenAt(Chars(request.extracted_text), request.line_break))
    /\ locals' = [printed |-> validate_warning_compliance(Chars(request.extracted_text))]
    /\ pc' = "returned"
    /\ UNCHANGED request

WarningNext == ValidateWarningCompliance

WarningSpec == WarningInit /\ [][WarningNext]_vars
(***************************************************************************)
(* One call of validate_warning_compliance on a label text made of a        *)
(* warning span (from the header through the closing phrase), a text in     *)
(* front of it that holds no header, and a text behind it.  The spans are   *)
(* those of the warnings of LabelWarning that have the closing phrase.      *)
(***************************************************************************)
\* the span of the warning statement of t: from the first header through the
\* first closing phrase that follows
SpanOf(t) ==
    LET l      == lower(t)
        header == Chars("government warning:")
        close  == Chars("health problems")
        first  == IndexOf(l, header)
        closes == { q \in first..Len(l) : MatchesAt(l, close, q) }
    IN  SubSeq(t, first, MinOf(closes) + Len(close) - 1)

SpanWarnings == { 1, 2, 4 }

TextBefore ==
    { "", LabelHead[1] \o LabelAbv[1] \o LabelVolume[1], "45% Alc./Vol. ",
      "GOVERNMENT WARNING\n", "No health problems known. Government warnings: " }

TextAfter ==
    { "", ".\n", ".\nBottled by Eagle Peak Distillery, Bardstown, Kentucky\n",
      " and other health problems.\n", ".\nGOVERNMENT WARNING: keep cool.", " \n\n" }

SpanRequests ==
    { [warning |-> w, before |-> b, after |-> a] :
        w \in SpanWarnings, b \in TextBefore, a \in TextAfter }

SpanInit ==
    /\ pc = "validate_span"
    /\ request \in SpanRequests
    /\ response = NoResponse
    /\ locals = NoLocals

\* validate_warning_compliance on the whole text (response), and on the span
\* alone (locals.alone)
ValidateSpan ==
    /\ pc = "validate_span"
    /\ \E span \in { SpanOf(Chars(LabelWarning[request.warning])) } :
          /\ response' = validate_warning_compliance(
                             Chars(request.before) \o span \o Chars(request.after))
          /\ locals' = [span |-> span, alone |-> validate_warning_compliance(span)]
    /\ pc' = "compared"
    /\ UNCHANGED request

SpanNext == ValidateSpan

SpanSpec == SpanInit /\ [][SpanNext]_vars

(***************************************************************************)
(* Image quality gate (app/ocr.py).  An uploaded image is the record of     *)
(* what the gate reads of it: the content type of the upload, the size of   *)
(* the file, whether PIL can open it, and then its dimensions and mode.     *)
(***************************************************************************)
MIN_WIDTH == 400
MIN_HEIGHT == 400
MIN_FILE_SIZE == 5000
MAX_FILE_SIZE == 10 * 1024 * 1024

\* str(n) of an integer
IntStr(n) == Str(DigitsOfInt(n))

\* f"{file_size / 1024 / 1024:.1f}": the two divisions are exact, the one
\* decimal is rounded to nearest, ties to even
MegabytesStr(file_size) ==
    LET q == (10 * file_size) \div (1024 * 1024)
        r == (10 * file_size) % (1024 * 1024)
        tenths == IF 2 * r > 1024 * 1024 \/ (2 * r = 1024 * 1024 /\ q % 2 = 1)
                  THEN q + 1 ELSE q
    IN  IntStr(tenths \div 10) \o "." \o IntStr(tenths % 10)

\* the pair (is_valid, message)
validate_image_quality(image) ==
    IF image.file_size < MIN_FILE_SIZE
    THEN <<FALSE, "Image file too small (" \o IntStr(image.file_size) \o " bytes). Minimum "
                  \o IntStr(MIN_FILE_SIZE) \o " bytes required for quality OCR.">>
    ELSE IF image.file_size > MAX_FILE_SIZE
    THEN <<FALSE, "Image file too large (" \o MegabytesStr(image.file_size)
                  \o "MB). Maximum " \o MegabytesStr(MAX_FILE_SIZE) \o "MB allowed.">>
    \* Image.open raises: the except branch, with the text of the exception
    ELSE IF ~image.readable
    THEN <<FALSE, "Invalid image file: " \o image.open_error>>
    ELSE IF image.width < MIN_WIDTH \/ image.height < MIN_HEIGHT
    THEN <<FALSE, "Image resolution too low (" \o IntStr(image.width) \o "x"
                  \o IntStr(image.height) \o "). Minimum " \o IntStr(MIN_WIDTH) \o "x"
                  \o IntStr(MIN_HEIGHT) \o " pixels required for accurate OCR.">>
    ELSE IF image.width < 200 \/ image.height < 200
    THEN <<FALSE, "Image appears to be a thumbnail. Please upload a full-size label image.">>
    ELSE IF image.mode \notin {"RGB", "RGBA", "L", "P"}
    THEN <<FALSE, "Unsupported image color mode '" \o image.mode
                  \o "'. Please use RGB, RGBA, or grayscale images.">>
    ELSE <<TRUE, "OK">>

(***************************************************************************)
(* Word boxes (extract_text_with_boxes).  A record of image_to_data holds   *)
(* the text of a word, its confidence and its box.  The dictionary maps a   *)
(* lower-cased word to one box (a Python dict) or to a list of boxes; a     *)
(* value is written with the flag is_list that isinstance(..., list) reads. *)
(***************************************************************************)
box_info(d) ==
    [left |-> d.left, top |-> d.top, width |-> d.width, height |-> d.height,
     conf |-> d.conf]

\* a faulty variant: a word met again is not made a list, its new box replaces
\* the one stored
add_box_replace(word_boxes, d) ==
    With(strip(Chars(d.text)), LAMBDA word_text :
        IF word_text # <<>> /\ d.conf > 30
        THEN With(Str(lower(word_text)), LAMBDA word_lower :
                 IF word_lower \in DOMAIN word_boxes
                 THEN [word_boxes EXCEPT
                          ![word_lower] = [is_list |-> FALSE, value |-> box_info(d)]]
                 ELSE (word_lower :> [is_list |-> FALSE, value |-> box_info(d)])
                      @@ word_boxes)
        ELSE word_boxes)

\* one iteration of the loop "for i in range(n_boxes)", on the record d
add_box(word_boxes, d) ==
    With(strip(Chars(d.text)), LAMBDA word_text :
        IF word_text # <<>> /\ d.conf > 30
        THEN With(Str(lower(word_text)), LAMBDA word_lower :
                 IF word_lower \in DOMAIN word_boxes
                 THEN IF word_boxes[word_lower].is_list
                      THEN [word_boxes EXCEPT
                               ![word_lower].value = Append(@, box_info(d))]
                      ELSE [word_boxes EXCEPT
                               ![word_lower] = [is_list |-> TRUE,
                                                value |-> << @.value, box_info(d) >>]]
                 ELSE (word_lower :> [is_list |-> FALSE, value |-> box_info(d)])
                      @@ word_boxes)
        ELSE word_boxes)

\* the loop "for i in range(n_boxes)"
word_boxes_of(data) ==
    FoldRange(LAMBDA word_boxes, i : add_box(word_boxes, data[i]), << >>, 1, Len(data))

(***************************************************************************)
(* The endpoint POST /api/verify (app/main.py, verify_label): the file type *)
(* test, the image quality gate, the text recognition, the verification.    *)
(* The text recognition is Tesseract's: any of the outcomes of OcrOutcomes. *)
(***************************************************************************)
GoodImage ==
    [content_type |-> "image/png", file_size |-> 250000, readable |-> TRUE,
     open_error |-> "", width |-> 1200, height |-> 1600, mode |-> "RGB"]

\* the good image, and the images that differ from it in one respect
Images ==
    { GoodImage }
    \cup { [GoodImage EXCEPT !.content_type = c] :
             c \in { "image/jpeg", "application/pdf", "text/plain", "" } }
    \cup { [GoodImage EXCEPT !.file_size = n] :
             n \in { MIN_FILE_SIZE - 1, MIN_FILE_SIZE, MAX_FILE_SIZE, MAX_FILE_SIZE + 1,
                     41 * 262144 } }
    \cup { [GoodImage EXCEPT !.readable = FALSE,
                             !.open_error = "cannot identify image file"] }
    \cup { [GoodImage EXCEPT !.width = w] : w \in { MIN_WIDTH - 1, MIN_WIDTH } }
    \cup { [GoodImage EXCEPT !.height = h] : h \in { MIN_HEIGHT - 1, MIN_HEIGHT } }
    \cup { [GoodImage EXCEPT !.mode = m] : m \in { "RGBA", "L", "P", "CMYK" } }

ApiBeverage == { "spirits", "wine", "Wine", "beer", "cider" }

ApiRequests ==
    { [brand_name |-> FormBrand[1], product_class |-> FormProduct[1],
       alcohol_content |-> FormAlcohol[1], net_contents |-> n,
       beverage_type |-> b, label_image |-> i] :
        n \in { << "750" >>, << >> }, b \in ApiBeverage, i \in Images }

\* the texts Tesseract reads, before extract_text_with_boxes strips them
OcrTexts ==
    { "", " \n", "45%\n", "EAGLE PK\n", " EAGLE PEAK \n",
      LabelHead[1] \o LabelAbv[1] \o LabelVolume[1] \o LabelWarning[1],
      LabelHead[1] \o LabelAbv[1] \o LabelVolume[1] \o LabelExtra[2] \o LabelWarning[1],
      LabelHead[1] \o LabelAbv[1] \o LabelVolume[1],
      LabelHead[2] \o LabelAbv[4] \o LabelVolume[2] \o LabelWarning[2] }

\* the word records of image_to_data
OcrData ==
    { << >>,
      << [text |-> "EAGLE", conf |-> 96, left |-> 40, top |-> 20, width |-> 120, height |-> 30],
         [text |-> " ", conf |-> 95, left |-> 0, top |-> 0, width |-> 0, height |-> 0],
         [text |-> "PEAK", conf |-> 30, left |-> 170, top |-> 20, width |-> 90, height |-> 30],
         [text |-> "Eagle", conf |-> 31, left |-> 40, top |-> 300, width |-> 60, height |-> 12],
         [text |-> "750", conf |-> 88, left |-> 40, top |-> 200, width |-> 40, height |-> 16] >> }

\* extract_text_with_boxes(image_bytes): an exception, or the stripped text
\* with the word boxes
OcrOutcomes ==
    { [raised |-> TRUE,
       error |-> "OCR processing failed: tesseract is not installed or it's not in your PATH"] }
    \cup { [raised |-> FALSE, text |-> Str(strip(Chars(t))), word_boxes |-> word_boxes_of(d)] :
             t \in OcrTexts, d \in OcrData }

\* str(e) of the HTTPException raised for the file type: the status and the
\* detail, or nothing, with the version of the web framework
HTTPExceptionStr(status_code, detail) == { IntStr(status_code) \o ": " \o detail, "" }

\* the except branch of verify_label: every exception raised in the handler
\* is answered with status 500
HTTPError500(error) ==
    [status_code |-> 500, detail |-> "Error processing verification: " \o error]

\* str.startswith
startswith(t, prefix) == MatchesAt(t, prefix, 1)

\* the handler is entered with the form fields and the uploaded file; calls
\* is the list of the collaborators called so far
ApiInit ==
    /\ pc = "verify_label"
    /\ request \in ApiRequests
    /\ response = NoResponse
    /\ locals = [calls |-> << >>]

\* "Validate file type": the HTTPException(400) is raised inside the try block
\* and caught by its "except Exception"
CheckFileType ==
    /\ pc = "verify_label"
    /\ IF startswith(Chars(request.label_image.content_type), Chars("image/"))
       THEN pc' = "validate_image_quality" /\ UNCHANGED response
       ELSE /\ \E e \in HTTPExceptionStr(400, "Uploaded file must be an image (JPEG, PNG, etc.)") :
                  response' = HTTPError500(e)
            /\ pc' = "responded"
    /\ UNCHANGED <<request, locals>>

\* a faulty variant: the rejection is logged and the handler goes on
ValidateImage_no_return ==
    /\ pc = "validate_image_quality"
    /\ \E v \in { validate_image_quality(request.label_image) } :
          /\ locals' = [is_valid |-> v[1], validation_message |-> v[2],
                        calls |-> Append(locals.calls, "validate_image_quality")]
          /\ pc' = "extract_text_with_boxes"
          /\ UNCHANGED response
    /\ UNCHANGED request

\* "Validate image quality before OCR"
ValidateImage ==
    /\ pc = "validate_image_quality"
    /\ \E v \in { validate_image_quality(request.label_image) } :
          /\ locals' = [is_valid |-> v[1], validation_message |-> v[2],
                        calls |-> Append(locals.calls, "validate_image_quality")]
          /\ IF ~v[1]
             THEN /\ response' = VerificationResponse(
                                     FALSE, FALSE,
                                     "[!] Image quality check failed: " \o v[2], "", << >>)
                  /\ pc' = "responded"
             ELSE pc' = "extract_text_with_boxes" /\ UNCHANGED response
    /\ UNCHANGED request

\* "Extract text from image using OCR with bounding boxes"
ExtractText ==
    /\ pc = "extract_text_with_boxes"
    /\ \E ocr \in OcrOutcomes :
          IF ocr.raised
          THEN /\ locals' = [locals EXCEPT !.calls = Append(@, "extract_text_with_boxes")]
               /\ response' = HTTPError500(ocr.error)
               /\ pc' = "responded"
          ELSE /\ locals' = [extracted_text |-> ocr.text, word_boxes |-> ocr.word_boxes,
                             calls |-> Append(locals.calls, "extract_text_with_boxes")]
                            @@ locals
               /\ IF ocr.text = "" \/ Len(strip(Chars(ocr.text))) < 10
                  THEN /\ response' = [VerificationResponse(
                                           FALSE, FALSE,
                                           "[!] Could not read text from the label image. Please try a clearer image.",
                                           ocr.text, << >>)
                                       EXCEPT !.word_boxes = << >>]
                       /\ pc' = "responded"
                  ELSE pc' = "verify_label_data" /\ UNCHANGED response
    /\ UNCHANGED request

\* BeverageType(beverage_type.lower()), BeverageType.SPIRITS on ValueError
bev_type_of(beverage_type) ==
    With(Str(lower(Chars(beverage_type))), LAMBDA b :
        IF b \in BeverageType THEN b ELSE "spirits")

\* "Verify extracted data against form inputs with beverage-specific rules"
VerifyLabelData ==
    /\ pc = "verify_label_data"
    /\ \E r \in { verify_label_data(locals.extracted_text, request.brand_name,
                                      request.product_class, request.alcohol_content,
                                      request.net_contents,
                                      bev_type_of(request.beverage_type)) } :
          locals' = [verification_result |-> r.response,
                     bev_type |-> bev_type_of(request.beverage_type),
                     calls |-> Append(locals.calls, "verify_label_data")] @@ locals
    /\ pc' = "return"
    /\ UNCHANGED <<request, response>>

\* "Add word boxes to response for frontend highlighting", and the return
ReturnResult ==
    /\ pc = "return"
    /\ response' = [locals.verification_result EXCEPT !.word_boxes = locals.word_boxes]
    /\ pc' = "responded"
    /\ UNCHANGED <<request, locals>>

ApiNext == CheckFileType \/ ValidateImage \/ ExtractText \/ VerifyLabelData \/ ReturnResult

ApiSpec == ApiInit /\ [][ApiNext]_vars

(***************************************************************************)
(* The loop of extract_text_with_boxes over the word records of             *)
(* image_to_data, one record at a time.  The records are words in several   *)
(* letter cases, padded, empty or blank, with confidences around the        *)
(* threshold; the box of the record i is told from the others by its place. *)
(***************************************************************************)
MaxRecords == 3

WordTexts == { "Eagle", " EAGLE", "Peak", " " }
WordConfidences == { 30, 31, 96 }

\* the i-th word record
WordRecord(i, text, conf) ==
    [text |-> text, conf |-> conf, left |-> 40 * i, top |-> 20, width |-> 35,
     height |-> 12]

BoxesRequests ==
    UNION { { [i \in 1..n |-> WordRecord(i, w[i][1], w[i][2])] :
                w \in [1..n -> WordTexts \X WordConfidences] } : n \in 0..MaxRecords }

\* word_boxes = {}; i is the number of records processed
BoxesInit ==
    /\ pc = "for"
    /\ request \in BoxesRequests
    /\ response = NoResponse
    /\ locals = [i |-> 0, word_boxes |-> << >>]

\* one iteration of the loop
NextRecord ==
    /\ pc = "for"
    /\ locals.i < Len(request)
    /\ locals' = [i |-> locals.i + 1,
                  word_boxes |-> add_box(locals.word_boxes, request[locals.i + 1])]
    /\ UNCHANGED <<pc, request, response>>

\* the loop is over: the dictionary is returned
ReturnBoxes ==
    /\ pc = "for"
    /\ locals.i = Len(request)
    /\ response' = locals.word_boxes
    /\ pc' = "returned"
    /\ UNCHANGED <<request, locals>>

BoxesNext == NextRecord \/ ReturnBoxes

BoxesSpec == BoxesInit /\ [][BoxesNext]_vars

(***************************************************************************)
(* One call of extract_percentage or of extract_volume on a line of label   *)
(* text made of up to MaxPieces pieces: quantities in each of the formats   *)
(* the extractors know, in several letter cases and spacings, and words in  *)
(* between.                                                                  *)
(***************************************************************************)
MaxPieces == 3

Pieces ==
    { "40.5 %", "12 Percent", "Alc. 43", "ALCOHOL 50", "750 mL", "1.75L", "12 oz",
      "8 FL. OZ", "No. 7", "Lot", "%" }

\* the pieces of a line, with single spaces between them
LineOf(ps) ==
    FoldRange(LAMBDA acc, i : IF i = 1 THEN ps[i] ELSE acc \o " " \o ps[i],
              "", 1, Len(ps))

ExtractRequests ==
    UNION { { [text |-> LineOf(ps)] : ps \in [1..n -> Pieces] } : n \in 0..MaxPieces }

ExtractInit ==
    /\ pc = "extract"
    /\ request \in ExtractRequests
    /\ response = NoResponse
    /\ locals = NoLocals

ExtractPercentage ==
    /\ pc = "extract"
    /\ response' = extract_percentage(Chars(request.text))
    /\ pc' = "extract_percentage"
    /\ UNCHANGED <<request, locals>>

ExtractVolume ==
    /\ pc = "extract"
    /\ response' = extract_volume(Chars(request.text))
    /\ pc' = "extract_volume"
    /\ UNCHANGED <<request, locals>>

ExtractNext == ExtractPercentage \/ ExtractVolume

ExtractSpec == ExtractInit /\ [][ExtractNext]_vars

(***************************************************************************)
(* Calls of verify_label_data running in parallel, one per worker, each     *)
(* taken one check at a time.  The variables hold one entry per call; the   *)
(* frame of a call holds its local variables checks and all_matched.  The   *)
(* module-level names of verification.py are part of the state.  A worker   *)
(* that has returned may make the same call again.                          *)
(***************************************************************************)
GOVT_WARNING_KEYWORDS ==
    << "government warning", "surgeon general", "pregnant", "birth defects",
       "operating machinery" >>

Calls == { 1, 2 }

\* the reference request
Reference == [d \in 1..Len(Parts) |-> 1]

\* the reference; another brand claimed; a wine without sulfite declaration;
\* a beer with a larger bottle and no warning
ParallelRequests ==
    { RequestOf(Reference),
      RequestOf([Reference EXCEPT ![6] = 2]),
      RequestOf([Reference EXCEPT ![2] = 7, ![10] = 2]),
      RequestOf([Reference EXCEPT ![3] = 2, ![5] = 5, ![10] = 3]) }

\* checks = []; all_matched = True
NewFrame == [checks |-> << >>, all_matched |-> TRUE]

\* a faulty variant: checks and all_matched are module-level, one list and one
\* flag for all the calls
Appended_shared(frames, c, new_checks, ok) ==
    [d \in DOMAIN frames |->
        [checks |-> frames[d].checks \o new_checks,
         all_matched |-> frames[d].all_matched /\ ok]]

\* checks.append(...) for each of new_checks and all_matched = all_matched and
\* ok, on the local variables of the call c
Appended(frames, c, new_checks, ok) ==
    [frames EXCEPT ![c] = [checks |-> @.checks \o new_checks,
                           all_matched |-> @.all_matched /\ ok]]

\* "Generate overall message"
overall_message(beverage_type, all_matched, checks) ==
    IF all_matched
    THEN "[OK] The " \o beverage_type
         \o " label matches the form data. All required information is consistent."
    ELSE "[FAIL] The " \o beverage_type
         \o " label does not match the form. Issues found in: "
         \o JoinNames(failed_checks(checks))

\* the verdict of a request when its call runs alone
Alone(r) ==
    verify_label_data(r.extracted_text, r.brand_name, r.product_class,
                      r.alcohol_content, r.net_contents, r.beverage_type).response

ParallelInit ==
    /\ pc = [c \in Calls |-> "brand"]
    /\ request \in [Calls -> ParallelRequests]
    /\ response = [c \in Calls |-> NoResponse]
    /\ locals = [frame    |-> [c \in Calls |-> NewFrame],
                 previous |-> [c \in Calls |-> NoResponse],
                 alone    |-> [c \in Calls |-> Alone(request[c])],
                 module   |-> [GOVT_WARNING_KEYWORDS |-> GOVT_WARNING_KEYWORDS,
                               REQUIRED_WARNING_TEXT |-> REQUIRED_WARNING_TEXT]]

\* the call c moves to its next position with the checks it appends
StepOf(c, to, new_checks, ok) ==
    /\ pc' = [pc EXCEPT ![c] = to]
    /\ locals' = [locals EXCEPT !.frame = Appended(@, c, new_checks, ok)]
    /\ UNCHANGED <<request, response>>

\* "Check 1: Brand Name"
BrandStep(c) ==
    /\ pc[c] = "brand"
    /\ \E check \in { brand_check(Chars(request[c].extracted_text), request[c].brand_name) } :
          StepOf(c, "product", << check >>, check.matched)

\* "Check 2: Product Class/Type"
ProductStep(c) ==
    /\ pc[c] = "product"
    /\ \E check \in { product_check(Chars(request[c].extracted_text),
                                    request[c].product_class) } :
          StepOf(c, "alcohol", << check >>, check.matched)

\* "Check 3: Alcohol Content"
AlcoholStep(c) ==
    /\ pc[c] = "alcohol"
    /\ \E check \in { alcohol_check(extract_percentage(Chars(request[c].extracted_text)),
                                    request[c].alcohol_content) } :
          StepOf(c, "net", << check >>, check.matched)

\* "Check 4: Net Contents (optional)"
NetContentsStep(c) ==
    /\ pc[c] = "net"
    /\ \E net \in { net_contents_checks(Chars(request[c].extracted_text),
                                        request[c].net_contents) } :
          StepOf(c, "warning", net, \A i \in 1..Len(net) : net[i].matched)

\* "Check 5: Government Warning - Detailed Compliance Check"
WarningStep(c) ==
    /\ pc[c] = "warning"
    /\ \E warning \in { validate_warning_compliance(Chars(request[c].extracted_text)) } :
          StepOf(c, "beverage", << warning_check(warning) >>, warning.is_compliant)

\* "Beverage-type specific checks"
BeverageStep(c) ==
    /\ pc[c] = "beverage"
    /\ \E specific \in
          { IF request[c].beverage_type = "wine"
            THEN wine_checks(Chars(request[c].extracted_text), TRUE)
            ELSE IF request[c].beverage_type = "beer"
            THEN beer_checks(Chars(request[c].extracted_text), TRUE)
            ELSE [checks |-> << >>, all_matched |-> TRUE] } :
          StepOf(c, "message", specific.checks, specific.all_matched)

\* "Generate overall message" and the return
ReturnStep(c) ==
    /\ pc[c] = "message"
    /\ response' =
           [response EXCEPT ![c] =
               VerificationResponse(
                   TRUE, locals.frame[c].all_matched,
                   overall_message(request[c].beverage_type, locals.frame[c].all_matched,
                                   locals.frame[c].checks),
                   request[c].extracted_text, locals.frame[c].checks)]
    /\ pc' = [pc EXCEPT ![c] = "returned"]
    /\ UNCHANGED <<request, locals>>

\* the worker makes the same call again; the verdict it got is remembered
CallAgain(c) ==
    /\ pc[c] = "returned"
    /\ locals.previous[c] = NoResponse
    /\ locals' = [locals EXCEPT !.previous[c] = response[c], !.frame[c] = NewFrame]
    /\ response' = [response EXCEPT ![c] = NoResponse]
    /\ pc' = [pc EXCEPT ![c] = "brand"]
    /\ UNCHANGED request

ParallelNext ==
    \E c \in Calls :
        \/ BrandStep(c)
        \/ ProductStep(c)
        \/ AlcoholStep(c)
        \/ NetContentsStep(c)
        \/ WarningStep(c)
        \/ BeverageStep(c)
        \/ ReturnStep(c)
        \/ CallAgain(c)

ParallelSpec == ParallelInit /\ [][ParallelNext]_vars

(***************************************************************************)
(* Properties of the verdict                                               *)
(***************************************************************************)
\* the checks whose field is mandatory (spec: brand name, product class,
\* alcohol content, government-warning compliance, net contents when claimed,
\* sulfite declaration for wine)
MandatoryFields ==
    { "Brand Name", "Product Class/Type", "Alcohol Content",
      "Government Warning (Detailed)", "Net Contents", "Sulfite Declaration" }

InformationalFields == { "Vintage Year", "Ingredients" }

\* the returned checks of the given field
ChecksOf(field) ==
    { i \in 1..Len(response.checks) : response.checks[i].field_name = field }

\* the mandatory checks that failed
FailedMandatory ==
    { response.checks[i].field_name : i \in
        { j \in 1..Len(response.checks) :
            /\ response.checks[j].field_name \in MandatoryFields
            /\ ~response.checks[j].matched } }

NamedInSummary ==
    { f \in MandatoryFields \cup InformationalFields :
        Contains(Chars(response.message), Chars(f)) }

\* C2: when overall_match is false, the summary message names every
\* mandatory check that failed and no other check: no informational check,
\* no check that matched.
SummaryNamesFailedMandatoryOnly ==
    (pc = "done" /\ ~response.overall_match) => NamedInSummary = FailedMandatory

\* the place of a field in the presentation order; the beverage-specific
\* checks share the last place
FieldRank(field) ==
    CASE field = "Brand Name" -> 1
      [] field = "Product Class/Type" -> 2
      [] field = "Alcohol Content" -> 3
      [] field = "Net Contents" -> 4
      [] field = "Government Warning (Detailed)" -> 5
      [] OTHER -> 6

\* C3: the returned checks are in the order Brand Name, Product Class/Type,
\* Alcohol Content, Net Contents (if produced), Government Warning
\* compliance, then the beverage-specific checks, each at most once.
ChecksInPresentationOrder ==
    pc = "done" =>
        LET c == response.checks
        IN  /\ \A f \in { "Brand Name", "Product Class/Type", "Alcohol Content",
                          "Government Warning (Detailed)" } : ChecksOf(f) # {}
            /\ \A i, j \in 1..Len(c) :
                  i < j => /\ FieldRank(c[i].field_name) <= FieldRank(c[j].field_name)
                           /\ c[i].field_name # c[j].field_name

\* C3 case: a response that holds a Net Contents check and beverage-specific checks
AllKindsOfChecksReturned ==
    /\ pc = "done"
    /\ ChecksOf("Net Contents") # {}
    /\ Len(response.checks) = 7

\* the names of the beverage-specific checks of the response, in their order
ExtraChecks ==
    SelectSeq(response.checks, LAMBDA c : FieldRank(c.field_name) = 6)

\* spec: "sulfite" / "sulphite" variants
SulfiteKeywordOccurs(text) ==
    \E k \in { "sulfite", "sulphite" } : Contains(lower(text), Chars(k))

\* spec: at least two of (ingredients, contains, water, barley, hops, yeast, malt)
TwoIngredientKeywordsOccur(text) ==
    Cardinality({ k \in { "ingredients", "contains", "water", "barley", "hops",
                          "yeast", "malt" } : Contains(lower(text), Chars(k)) }) >= 2

\* C4: the beverage category alone selects the extra checks: wine appends a
\* Sulfite Declaration check (matched iff a sulfite/sulphite keyword occurs in
\* the text) followed by a Vintage Year check; beer appends one Ingredients
\* check (matched iff at least two of the seven keywords occur); spirits
\* appends nothing.
BeverageSelectsExtraChecks ==
    pc = "done" =>
        LET e == ExtraChecks
            text == Chars(request.extracted_text)
        IN  CASE request.beverage_type = "wine" ->
                   /\ Len(e) = 2
                   /\ e[1].field_name = "Sulfite Declaration"
                   /\ e[2].field_name = "Vintage Year"
                   /\ e[1].matched <=> SulfiteKeywordOccurs(text)
              [] request.beverage_type = "beer" ->
                   /\ Len(e) = 1
                   /\ e[1].field_name = "Ingredients"
                   /\ e[1].matched <=> TwoIngredientKeywordsOccur(text)
              [] OTHER -> e = <<>>

\* C4 case: a beer label with an ingredients list
BeerWithIngredients ==
    /\ pc = "done"
    /\ request.beverage_type = "beer"
    /\ \E i \in ChecksOf("Ingredients") : response.checks[i].matched

\* a claimed net contents that holds a digit
ClaimHoldsNumber ==
    /\ request.net_contents # <<>>
    /\ \E i \in 1..Len(request.net_contents[1]) :
          SubSeq(request.net_contents[1], i, i) \in Digits

\* the volume the check reports as found on the label, or None
ReportedVolume(check) ==
    LET f == Chars(check.found_value)
    IN  IF check.found_value = "Not found" THEN None ELSE SubSeq(f, 1, Len(f) - 3)

\* C5: with a claimed net contents that holds a number, the Net Contents check
\* matched iff a volume is extracted from the label and it equals, as a whole
\* string, the first number of the claim; so claimed "750" matches a label
\* reading "750 mL" and does not match one reading "1750 mL".
NetContentsExactNumber ==
    (pc = "done" /\ ClaimHoldsNumber) =>
        /\ Cardinality(ChecksOf("Net Contents")) = 1
        /\ \A i \in ChecksOf("Net Contents") :
              LET check == response.checks[i]
                  text  == Chars(request.extracted_text)
              IN  /\ check.matched <=>
                        /\ ReportedVolume(check) # None
                        /\ ReportedVolume(check)
                               = form_volume_of(Chars(request.net_contents[1]))
                  /\ request.net_contents[1] = "750" =>
                        /\ Contains(text, Chars("\n1750 mL\n")) => ~check.matched
                        /\ Contains(text, Chars("\n750 mL\n")) => check.matched

\* C5 case: claimed "750" against a label reading "1750 mL"
LargerBottleRejected ==
    /\ pc = "done"
    /\ request.net_contents = << "750" >>
    /\ Contains(Chars(request.extracted_text), Chars("\n1750 mL\n"))
    /\ \E i \in ChecksOf("Net Contents") : ~response.checks[i].matched

\* C6: when the claimed net contents is absent, empty or holds no number, no
\* Net Contents check is produced, the verification succeeds, and overall_match
\* and the summary message are those of a request without a claimed net
\* contents.
UnparsableNetContentsSkipped ==
    (pc = "done" /\ ~ClaimHoldsNumber) =>
        /\ ChecksOf("Net Contents") = {}
        /\ response.success
        /\ request.net_contents # <<>> =>
              LET r == verify_label_data(request.extracted_text, request.brand_name,
                                         request.product_class, request.alcohol_content,
                                         << >>, request.beverage_type).response
              IN  /\ response.overall_match = r.overall_match
                  /\ response.message = r.message

\* C6 case: a claim without a number on a label that is accepted
WordyNetContentsAccepted ==
    /\ pc = "done"
    /\ request.net_contents = << "large" >>
    /\ response.overall_match

\* C7: the Alcohol Content check matched iff a percentage is extracted from
\* the label and its absolute difference from the claimed alcohol content is at
\* most 0.5 percentage points, inclusive and symmetric (the numbers in tenths).
AlcoholWithinHalfPoint ==
    pc = "done" =>
        \A i \in ChecksOf("Alcohol Content") :
            response.checks[i].matched <=>
                /\ locals.extracted_abv # NoNumber
                /\ locals.extracted_abv[1] - request.alcohol_content <= 5
                /\ request.alcohol_content - locals.extracted_abv[1] <= 5

(***************************************************************************)
(* Properties of the compliance checker                                    *)
(***************************************************************************)
\* the reference warning with "Surgeon General" in lower case
LowerCaseSurgeonGeneralWarning ==
    LET r == Chars(REQUIRED_WARNING_TEXT)
        p == IndexOf(r, Chars("Surgeon General"))
    IN  SubSeq(r, 1, p - 1) \o Chars("surgeon general") \o SubSeq(r, p + 15, Len(r))

\* C8: on a text that contains the verbatim reference warning,
\* validate_warning_compliance returns compliant with zero violations; on a
\* text that contains it with only "Surgeon General" in lower case, it returns
\* non-compliant with exactly one violation, the one about the capitalization.
VerbatimWarningCompliant ==
    pc = "done" =>
        LET text == Chars(request.extracted_text)
        IN  /\ Contains(text, Chars(REQUIRED_WARNING_TEXT)) =>
                  /\ locals.warning.is_compliant
                  /\ locals.warning.violations = << >>
            /\ Contains(text, LowerCaseSurgeonGeneralWarning) =>
                  /\ ~locals.warning.is_compliant
                  /\ locals.warning.violations
                         = << "'Surgeon General' must have capital S and capital G" >>

\* C8 case: a label whose warning has "surgeon general" in lower case
LowerCaseSurgeonGeneralReported ==
    /\ pc = "done"
    /\ Contains(Chars(request.extracted_text), LowerCaseSurgeonGeneralWarning)
    /\ Len(locals.warning.violations) = 1

\* the text holds the header of the warning, in any letter case
HeaderOccurs(text) == Contains(lower(text), Chars("government warning:"))

\* C9: when the label text holds no "GOVERNMENT WARNING:" header in any
\* letter case, validate_warning_compliance returns non-compliant with
\* exactly one violation, the warning-not-found one.
NoHeaderOnlyNotFound ==
    (pc = "done" /\ ~HeaderOccurs(Chars(request.extracted_text))) =>
        /\ ~locals.warning.is_compliant
        /\ locals.warning.violations = << "Government warning statement not found" >>

\* C9 case: a label without warning has been checked
LabelWithoutWarningChecked ==
    /\ pc = "done"
    /\ ~HeaderOccurs(Chars(request.extracted_text))
    /\ Len(locals.warning.violations) = 1

\* the sub-checks of a located warning w whose similarity to the reference is
\* sim: whether each one failed, and the text of its violation
SubChecks(w, sim) ==
    LET wl == lower(w)
    IN  << [failed |-> ~Contains(w, Chars("GOVERNMENT WARNING:")),
            says   |-> "'GOVERNMENT WARNING' must be in all capital letters"],
           [failed |-> /\ Contains(wl, Chars("surgeon general"))
                       /\ ~Contains(w, Chars("Surgeon General")),
            says   |-> "'Surgeon General' must have capital S and capital G"],
           [failed |-> ~Contains(w, Chars("1)")),
            says   |-> "Statement (1) about pregnancy and birth defects is missing"],
           [failed |-> ~Contains(w, Chars("2)")),
            says   |-> "Statement (2) about driving/machinery is missing"],
           [failed |-> ~Contains(wl, Chars("women should not drink")),
            says   |-> "Missing required phrase: 'women and pregnancy warning'"],
           [failed |-> ~Contains(wl, Chars("birth defects")),
            says   |-> "Missing required phrase: 'birth defects warning'"],
           [failed |-> ~Contains(wl, Chars("drive a car or operate machinery")),
            says   |-> "Missing required phrase: 'driving/machinery warning'"],
           [failed |-> ~Contains(wl, Chars("health problems")),
            says   |-> "Missing required phrase: 'health problems warning'"],
           [failed |-> 100 * sim[1] < 90 * sim[2],
            says   |-> "Warning text differs from required regulatory text"] >>

\* the violation v is the one of the sub-check s (the similarity violation
\* ends with the similarity found)
Reports(v, s) ==
    Len(v) >= Len(s.says) /\ SubSeq(v, 1, Len(s.says)) = s.says

\* C10: when a warning section is located, every sub-check is evaluated
\* whatever the outcome of the others: the violation list holds exactly one
\* entry for each sub-check that failed and none for one that passed, and the
\* compliant flag is true iff the list is empty.
SubChecksIndependent ==
    (pc = "done" /\ locals.warning.warning_text # None) =>
        LET s == SubChecks(locals.warning.warning_text, locals.warning.similarity)
            v == locals.warning.violations
        IN  /\ \A k \in 1..Len(s) :
                  Cardinality({ i \in 1..Len(v) : Reports(v[i], s[k]) })
                      = IF s[k].failed THEN 1 ELSE 0
            /\ Len(v) = Cardinality({ k \in 1..Len(s) : s[k].failed })
            /\ locals.warning.is_compliant <=> v = << >>

\* C10 case: a located warning with several defects at once
SeveralViolationsAtOnce ==
    /\ pc = "done"
    /\ locals.warning.warning_text # None
    /\ Len(locals.warning.violations) >= 3

(***************************************************************************)
(* Properties of the verdict as a whole                                    *)
(***************************************************************************)
\* the checks every verdict holds
CoreFields ==
    { "Brand Name", "Product Class/Type", "Alcohol Content",
      "Government Warning (Detailed)" }

\* C18: for every text and every claimed brand, product class, alcohol
\* content, optional net contents and beverage type, verify_label_data
\* returns a verdict with success = true that holds at least the Brand Name,
\* Product Class/Type, Alcohol Content and Government Warning checks, each
\* with a non-empty message; an extractor or matcher that finds nothing gives
\* a check with matched = false.
VerdictAlwaysComplete ==
    pc = "done" =>
        LET text == Chars(request.extracted_text)
        IN  /\ response.success
            /\ \A f \in CoreFields : ChecksOf(f) # {}
            /\ \A i \in 1..Len(response.checks) : response.checks[i].message # ""
            /\ ~fuzzy_match(text, Chars(request.brand_name), 3, 4)[1] =>
                  \A i \in ChecksOf("Brand Name") : ~response.checks[i].matched
            /\ ~fuzzy_match(text, Chars(request.product_class), 3, 4)[1] =>
                  \A i \in ChecksOf("Product Class/Type") : ~response.checks[i].matched
            /\ locals.extracted_abv = NoNumber =>
                  \A i \in ChecksOf("Alcohol Content") : ~response.checks[i].matched
            /\ extract_volume(text) = None =>
                  \A i \in ChecksOf("Net Contents") : ~response.checks[i].matched
            /\ locals.warning.warning_text = None =>
                  \A i \in ChecksOf("Government Warning (Detailed)") :
                      ~response.checks[i].matched

\* C18 case: a label on which neither an alcohol content nor a warning is found
NothingFoundStillExplained ==
    /\ pc = "done"
    /\ locals.extracted_abv = NoNumber
    /\ locals.warning.warning_text = None
    /\ response.success
    /\ \A f \in CoreFields : ChecksOf(f) # {}

(***************************************************************************)
(* Properties of the fallback guesses                                      *)
(***************************************************************************)
\* the lines of the text, trimmed, that are longer than one character
LongLines(text) ==
    { i \in 1..Len(split_lines(text)) : Len(strip(split_lines(text)[i])) > 1 }

\* the guess the claim states for the brand: the first such line, as text
BrandGuess(text) ==
    IF LongLines(text) = {} THEN "Not found"
    ELSE Str(strip(split_lines(text)[MinOf(LongLines(text))]))

\* the vocabulary terms that occur in the text and are as long as any that does
LongestTerms(text) ==
    { i \in 1..Len(product_types) :
        /\ Contains(lower(text), product_types[i])
        /\ \A j \in 1..Len(product_types) :
              Contains(lower(text), product_types[j])
                  => Len(product_types[j]) <= Len(product_types[i]) }

\* the guesses the claim allows for the product class (in title case)
ProductGuesses(text) ==
    IF LongestTerms(text) = {} THEN { "Not found" }
    ELSE { Str(title(product_types[i])) : i \in LongestTerms(text) }

\* C21: when the fuzzy match for the claimed brand (product class) fails, its
\* check has matched = false, overall_match is false, and found_value is the
\* fallback guess: for the brand the first line longer than one character
\* after trimming, for the product class the longest vocabulary term that
\* occurs in the text, "Not found" when there is none.  A check is matched
\* only when the fuzzy match succeeded.
FallbackGuessShown ==
    pc = "done" =>
        LET text == Chars(request.extracted_text)
            brand_matched == fuzzy_match(text, Chars(request.brand_name), 3, 4)[1]
            product_matched == fuzzy_match(text, Chars(request.product_class), 3, 4)[1]
        IN  /\ \A i \in ChecksOf("Brand Name") :
                  /\ response.checks[i].matched <=> brand_matched
                  /\ ~brand_matched =>
                        /\ ~response.overall_match
                        /\ response.checks[i].found_value = BrandGuess(text)
            /\ \A i \in ChecksOf("Product Class/Type") :
                  /\ response.checks[i].matched <=> product_matched
                  /\ ~product_matched =>
                        /\ ~response.overall_match
                        /\ response.checks[i].found_value \in ProductGuesses(text)

\* C21 case: the brand mismatch of the tests, the claimed brand "Mountain
\* Ridge" on the label of Eagle Peak
BrandMismatchShowsFirstLine ==
    /\ pc = "done"
    /\ request.brand_name = "Mountain Ridge"
    /\ \E i \in ChecksOf("Brand Name") :
          /\ ~response.checks[i].matched
          /\ response.checks[i].found_value = "EAGLE PEAK"
    /\ ~response.overall_match

\* a label on which neither guess finds anything
NoGuessAtAll ==
    /\ pc = "done"
    /\ \E i \in ChecksOf("Brand Name") : response.checks[i].found_value = "Not found"
    /\ \E i \in ChecksOf("Product Class/Type") : response.checks[i].found_value = "Not found"


\* every returned check matched
AllChecksMatched == \A i \in 1..Len(response.checks) : response.checks[i].matched

\* the label holds everything the form claims: the brand and the product
\* class (case and spacing aside), a percentage within half a point of the
\* claimed one, the claimed net-contents number, the verbatim warning
LabelAgreesWithForm ==
    LET text == Chars(request.extracted_text)
    IN  /\ Contains(normalize_text(text), normalize_text(Chars(request.brand_name)))
        /\ Contains(normalize_text(text), normalize_text(Chars(request.product_class)))
        /\ locals.extracted_abv # NoNumber
        /\ locals.extracted_abv[1] - request.alcohol_content <= 5
        /\ request.alcohol_content - locals.extracted_abv[1] <= 5
        /\ request.net_contents # << >> =>
              /\ request.net_contents[1] # ""
              /\ form_volume_of(Chars(request.net_contents[1])) = extract_volume(text)
        /\ Contains(text, Chars(REQUIRED_WARNING_TEXT))

\* C22: for spirits the returned list holds only mandatory checks, so
\* overall_match is true exactly when every returned check matched; a label
\* that holds the claimed brand and product class, an alcohol percentage
\* within tolerance, the claimed net-contents number and the verbatim
\* reference warning gets overall_match = true with every check matched.
SpiritsAllChecksDecide ==
    (pc = "done" /\ request.beverage_type = "spirits") =>
        /\ \A i \in 1..Len(response.checks) :
              response.checks[i].field_name \in MandatoryFields
        /\ response.overall_match <=> AllChecksMatched
        /\ LabelAgreesWithForm => (response.overall_match /\ AllChecksMatched)

\* C22 with the tolerance as the source computes it, on doubles
SpiritsAllChecksDecideOnDoubles ==
    (pc = "done" /\ request.beverage_type = "spirits") =>
        /\ \A i \in 1..Len(response.checks) :
              response.checks[i].field_name \in MandatoryFields
        /\ response.overall_match <=> AllChecksMatched
        /\ (LabelAgreesWithForm
              /\ abs_diff_le_half(locals.extracted_abv[1], request.alcohol_content))
              => (response.overall_match /\ AllChecksMatched)

\* C22 case: the perfect match of the tests
PerfectMatchAccepted ==
    /\ pc = "done"
    /\ request = RequestOf([d \in 1..Len(Parts) |-> 1])
    /\ LabelAgreesWithForm
    /\ response.overall_match
    /\ AllChecksMatched

\* the violation list a returned check carries, None when it carries none
ViolationsOf(check) ==
    IF "violations" \in DOMAIN check THEN check.violations ELSE None

\* C23: the returned FieldCheck records carry the itemized violation list:
\* the Government Warning check of a non-compliant label holds the violation
\* strings of validate_warning_compliance, one per failed sub-check; a
\* compliant one holds none, and no other check holds a violation list.
ChecksCarryViolations ==
    pc = "done" =>
        \A i \in 1..Len(response.checks) :
            ViolationsOf(response.checks[i])
                = IF /\ response.checks[i].field_name = "Government Warning (Detailed)"
                     /\ ~locals.warning.is_compliant
                  THEN locals.warning.violations
                  ELSE None

\* what the source does return of the violations: their count in found_value
\* and their texts joined in the message, on no field of their own
ViolationsOnlyInMessage ==
    pc = "done" =>
        \A i \in ChecksOf("Government Warning (Detailed)") :
            /\ DOMAIN response.checks[i] = FieldCheckFields
            /\ ~locals.warning.is_compliant =>
                  response.checks[i].message
                      = "[x] Warning non-compliant: " \o JoinViolations(locals.warning.violations)

\* C29: in the Alcohol Content check, found_value is "Not found" exactly
\* when no percentage could be extracted from the label text; whenever one was
\* extracted, and so whenever the check matched, found_value shows the
\* extracted percentage, for every extracted value, 0 included.
AlcoholFoundValueShown ==
    pc = "done" =>
        \A i \in ChecksOf("Alcohol Content") :
            /\ response.checks[i].found_value = "Not found"
                   <=> locals.extracted_abv = NoNumber
            /\ locals.extracted_abv # NoNumber =>
                   response.checks[i].found_value
                       = Str(FormatFloat(locals.extracted_abv[1])) \o "%"
            /\ response.checks[i].matched => response.checks[i].found_value # "Not found"

\* C29 for the percentages other than zero
AlcoholFoundValueShownUnlessZero ==
    (pc = "done" /\ locals.extracted_abv # << 0 >>) =>
        \A i \in ChecksOf("Alcohol Content") :
            /\ response.checks[i].found_value = "Not found"
                   <=> locals.extracted_abv = NoNumber
            /\ locals.extracted_abv # NoNumber =>
                   response.checks[i].found_value
                       = Str(FormatFloat(locals.extracted_abv[1])) \o "%"
            /\ response.checks[i].matched => response.checks[i].found_value # "Not found"

\* a label of 0% for a claim of 0%: the check matched and shows "Not found"
ZeroPercentMatchedNotShown ==
    /\ pc = "done"
    /\ locals.extracted_abv = << 0 >>
    /\ \E i \in ChecksOf("Alcohol Content") :
          /\ response.checks[i].matched
          /\ response.checks[i].found_value = "Not found"

(***************************************************************************)
(* Properties of parallel calls (specification ParallelSpec)               *)
(***************************************************************************)
\* C24: verification calls share no mutable state: under every interleaving
\* of the calls each call returns exactly the verdict it returns when it runs
\* alone, the module-level constants (keyword list, reference warning text)
\* are never modified, and a call repeated with the same inputs returns the
\* same verdict.
CallsShareNoState ==
    /\ \A c \in Calls :
          pc[c] = "returned" =>
              /\ response[c] = locals.alone[c]
              /\ locals.previous[c] # NoResponse => response[c] = locals.previous[c]
    /\ locals.module.GOVT_WARNING_KEYWORDS = GOVT_WARNING_KEYWORDS
    /\ locals.module.REQUIRED_WARNING_TEXT = REQUIRED_WARNING_TEXT

\* C24 case: a call has returned for the second time while the call of the
\* other worker, on another input and with another verdict to come, is in the
\* middle of its checks
ReturnedWhileOtherInProgress ==
    /\ pc[1] = "returned"
    /\ locals.previous[1] # NoResponse
    /\ pc[2] \in { "alcohol", "net", "warning" }
    /\ locals.frame[2].checks # << >>
    /\ request[1] # request[2]
    /\ response[1].overall_match # locals.alone[2].overall_match

(***************************************************************************)
(* Properties of the word boxes (specification BoxesSpec)                  *)
(***************************************************************************)
\* the records processed so far that count for the word w: trimmed text not
\* empty, equal to w in lower case, confidence above 30
Qualifying(w) ==
    { j \in 1..locals.i :
        /\ strip(Chars(request[j].text)) # << >>
        /\ Str(lower(strip(Chars(request[j].text)))) = w
        /\ request[j].conf > 30 }

\* the boxes of a set of records, in the order of the records
RECURSIVE BoxesInOrder(_)
BoxesInOrder(J) ==
    IF J = {} THEN << >>
    ELSE << box_info(request[MinOf(J)]) >> \o BoxesInOrder(J \ { MinOf(J) })

\* the lower-cased words of all the records, and the keys of the dictionary
WordsMet ==
    { Str(lower(strip(Chars(request[j].text)))) : j \in 1..Len(request) }
    \cup DOMAIN locals.word_boxes

\* C25: after the word records have been processed in order, for every
\* lower-cased word w the boxes stored under w are exactly the records whose
\* trimmed text is not empty, lower-cases to w and has a confidence above 30,
\* in the order met: one box when there is one such record, a list of all of
\* them when there are several; a word with none is absent, and no qualifying
\* record is lost or duplicated.
WordBoxesAreQualifyingRecords ==
    pc \in { "for", "returned" } =>
        \A w \in WordsMet :
            IF Qualifying(w) = {}
            THEN w \notin DOMAIN locals.word_boxes
            ELSE /\ w \in DOMAIN locals.word_boxes
                 /\ locals.word_boxes[w] =
                       IF Cardinality(Qualifying(w)) = 1
                       THEN [is_list |-> FALSE,
                             value |-> box_info(request[MinOf(Qualifying(w))])]
                       ELSE [is_list |-> TRUE, value |-> BoxesInOrder(Qualifying(w))]

\* C25 case: a word read three times, in several letter cases, is returned
\* with a list of its three boxes
ThreeBoxesOfOneWord ==
    /\ pc = "returned"
    /\ "eagle" \in DOMAIN response
    /\ response["eagle"].is_list
    /\ Len(response["eagle"].value) = 3
    /\ request[1].text # request[2].text

\* a word read once with enough confidence and once without has one box
OneBoxKept ==
    /\ pc = "returned"
    /\ Len(request) = 3
    /\ "peak" \in DOMAIN response
    /\ ~response["peak"].is_list
    /\ "eagle" \notin DOMAIN response

(***************************************************************************)
(* Properties of the extractors (specification ExtractSpec)                *)
(***************************************************************************)
\* the text of the request, in lower case
LineLower == lower(Chars(request.text))

\* t[i..e-1] is made of digits only, and of one at least
AllDigits(t, i, e) == i < e /\ \A k \in i..(e - 1) : t[k] \in Digits

\* t[i..e-1] is a percentage number: digits, then possibly a point and
\* possibly more digits
IsPercentNumber(t, i, e) ==
    \/ AllDigits(t, i, e)
    \/ \E d \in (i + 1)..(e - 1) :
          /\ AllDigits(t, i, d)
          /\ t[d] = "."
          /\ d + 1 = e \/ AllDigits(t, d + 1, e)

\* t[i..e-1] is a volume number: digits, then possibly a point and more digits
IsVolumeNumber(t, i, e) ==
    \/ AllDigits(t, i, e)
    \/ \E d \in (i + 1)..(e - 2) :
          /\ AllDigits(t, i, d)
          /\ t[d] = "."
          /\ AllDigits(t, d + 1, e)

\* t[e..j-1] is whitespace, possibly none
Blank(t, e, j) == e <= j /\ \A k \in e..(j - 1) : t[k] \in Whitespace

\* the unit of the family stands at j: its symbol or the beginning of its name
UnitAt(t, family, j) ==
    CASE family = "%" -> MatchesAt(t, Chars("%"), j)
      [] family = "percent" -> MatchesAt(t, Chars("percent"), j)
      [] family = "ml" -> MatchesAt(t, Chars("ml"), j) \/ MatchesAt(t, Chars("milliliter"), j)
      [] family = "l" -> MatchesAt(t, Chars("l"), j)
      [] family = "oz" -> MatchesAt(t, Chars("oz"), j) \/ MatchesAt(t, Chars("ounce"), j)
      [] family = "fl oz" ->
             /\ MatchesAt(t, Chars("fl"), j)
             /\ \E k \in (j + 2)..Len(t) :
                   /\ MatchesAt(t, Chars("oz"), k)
                   /\ \/ Blank(t, j + 2, k)
                      \/ j + 2 < k /\ t[j + 2] = "." /\ Blank(t, j + 3, k)

\* the occurrences <<i, e>> in t of a number followed, after possible
\* whitespace, by the unit of the family: the number is t[i..e-1]
QuantitiesIn(t, family, volume) ==
    { ie \in (1..Len(t)) \X (2..(Len(t) + 1)) :
        /\ t[ie[1]] \in Digits
        /\ IF volume THEN IsVolumeNumber(t, ie[1], ie[2])
           ELSE IsPercentNumber(t, ie[1], ie[2])
        /\ \E j \in ie[2]..Len(t) : Blank(t, ie[2], j) /\ UnitAt(t, family, j) }

\* the occurrences <<i, e>> in t of a number that follows the word, a point
\* if dotted, and possible whitespace; the number t[i..e-1] is as long as it
\* can be
NumbersAfter(t, word, dotted) ==
    { ie \in (1..Len(t)) \X (2..(Len(t) + 1)) :
        /\ t[ie[1]] \in Digits
        /\ IsPercentNumber(t, ie[1], ie[2])
        /\ \A e \in (ie[2] + 1)..(Len(t) + 1) : ~IsPercentNumber(t, ie[1], e)
        /\ \E w \in 1..ie[1] :
              /\ MatchesAt(t, Chars(word), w)
              /\ \/ Blank(t, w + Len(word), ie[1])
                 \/ /\ dotted
                    /\ w + Len(word) < ie[1]
                    /\ t[w + Len(word)] = "."
                    /\ Blank(t, w + Len(word) + 1, ie[1]) }

\* the number of the first of the occurrences
FirstOf(t, occurrences) ==
    LET first == CHOOSE ie \in occurrences : \A o \in occurrences : ie[1] <= o[1]
    IN  SubSeq(t, first[1], first[2] - 1)

\* the occurrences of the formats of a percentage, in their order
PercentageFormats(t) ==
    << QuantitiesIn(t, "%", FALSE),
       QuantitiesIn(t, "percent", FALSE),
       NumbersAfter(t, "alc", TRUE),
       NumbersAfter(t, "alcohol", FALSE) >>

\* the occurrences of the unit families of a volume, in their order
VolumeFamilies(t) ==
    << QuantitiesIn(t, "ml", TRUE),
       QuantitiesIn(t, "l", TRUE),
       QuantitiesIn(t, "oz", TRUE),
       QuantitiesIn(t, "fl oz", TRUE) >>

\* the first number of the first of the formats that occurs, None when none does
FirstOfEarliest(t, formats) ==
    LET present == { f \in 1..Len(formats) : formats[f] # {} }
    IN  IF present = {} THEN None ELSE FirstOf(t, formats[MinOf(present)])

\* C26: extract_percentage tries its formats in a fixed order ("NN%" or
\* "NN %", then "NN percent", then "alc. NN", then "alcohol NN", in any letter
\* case) and returns, as a decimal, the first occurrence of the earliest
\* format that occurs anywhere in the text, wherever occurrences of later
\* formats stand; it returns none when no format occurs.
PercentageOfEarliestFormat ==
    pc = "extract_percentage" =>
        LET number == FirstOfEarliest(LineLower, PercentageFormats(LineLower))
        IN  response = IF number = None THEN NoNumber ELSE << TenthsOf(number) >>

\* C26 case: a percentage sign after a quantity of a later format
PercentSignAfterAlc ==
    /\ pc = "extract_percentage"
    /\ request.text = "Alc. 43 750 mL 40.5 %"
    /\ response = << 405 >>

\* C27: extract_volume returns the numeric string, without unit conversion,
\* of the first occurrence of the highest-priority unit family present in the
\* text, in the fixed order mL, L, oz, fl oz: a text with an oz quantity and
\* a mL quantity yields the mL number wherever each stands, and a text with
\* no recognized volume yields none.
VolumeOfFirstFamily ==
    pc = "extract_volume" =>
        response = FirstOfEarliest(LineLower, VolumeFamilies(LineLower))

\* C27 case: ounces in front of milliliters
MillilitersAfterOunces ==
    /\ pc = "extract_volume"
    /\ request.text = "12 oz 1.75L 750 mL"
    /\ response = Chars("750")

(***************************************************************************)
(* Properties of the endpoint (specification ApiSpec)                      *)
(***************************************************************************)
\* the caller has received a VerificationResponse (not an HTTP error)
VerdictReceived == pc = "responded" /\ "overall_match" \in DOMAIN response

\* C19: in every response a caller can receive, overall_match = false means
\* that the verification ran and found a discrepancy: success = true and at
\* least one mandatory check unmatched.  A request on which the verification
\* could not run is reported by success = false, never by overall_match =
\* false without a failed check behind it.
OverallMismatchMeansDiscrepancy ==
    (VerdictReceived /\ ~response.overall_match) =>
        /\ response.success
        /\ FailedMandatory # {}

\* the collaborators of the endpoint, in the order of the pipeline
PipelineOrder ==
    << "validate_image_quality", "extract_text_with_boxes", "verify_label_data" >>

\* C20: the image quality gate runs before the text recognition and the text
\* recognition before the verification engine; verify_label_data is invoked
\* only if the image passed validate_image_quality and the recognized text
\* has at least 10 characters after trimming; on a rejected image neither the
\* text recognition nor verify_label_data is invoked, and the response
\* carries the rejection message with an empty check list.
GateBeforeOcrBeforeEngine ==
    /\ Len(locals.calls) <= Len(PipelineOrder)
    /\ locals.calls = SubSeq(PipelineOrder, 1, Len(locals.calls))
    /\ locals.calls # << >> =>
          locals.is_valid = validate_image_quality(request.label_image)[1]
    /\ Len(locals.calls) = 3 =>
          /\ locals.is_valid
          /\ Len(strip(Chars(locals.extracted_text))) >= 10
    /\ (pc = "responded" /\ locals.calls # << >> /\ ~locals.is_valid) =>
          /\ locals.calls = << "validate_image_quality" >>
          /\ ~response.success
          /\ response.message
                 = "[!] Image quality check failed: " \o locals.validation_message
          /\ response.checks = << >>

\* C20 case: a verdict returned after the gate, the text recognition and the
\* engine have run
VerdictAfterGateAndOcr ==
    /\ pc = "responded"
    /\ locals.calls = PipelineOrder
    /\ response.success
    /\ Len(response.checks) >= 4

\* the request has been answered and its file is not of an image type
NotAnImageAnswered ==
    /\ pc = "responded"
    /\ ~startswith(Chars(request.label_image.content_type), Chars("image/"))

\* C28: a request whose uploaded file has a content type that is not image/*
\* is answered with an HTTP 400 error that carries the "must be an image"
\* detail, and none of the image quality validation, the text recognition and
\* verify_label_data runs.
NotAnImageIsBadRequest ==
    NotAnImageAnswered =>
        /\ response = [status_code |-> 400,
                       detail |-> "Uploaded file must be an image (JPEG, PNG, etc.)"]
        /\ locals.calls = << >>

\* what the source answers: no collaborator runs, and the error raised for
\* the file type leaves the handler as an error 500
NotAnImageIsServerError ==
    NotAnImageAnswered =>
        /\ response.status_code = 500
        /\ locals.calls = << >>

(***************************************************************************)
(* Properties of the fuzzy matcher (specification MatchSpec)               *)
(***************************************************************************)
\* the normalized needle is a literal substring of the normalized haystack
SubstringStep == Contains(locals.text_norm, locals.pattern_norm)

\* C12: when the normalized needle is a literal substring of the normalized
\* haystack, fuzzy_match succeeds and the found span is a slice of the
\* original haystack, in its original casing, that corresponds to the match:
\* normalizing the found span gives the normalized needle.  This for every
\* haystack, also one with leading whitespace, line breaks or runs of spaces.
SubstringSpanCorresponds ==
    (pc = "returned" /\ SubstringStep) =>
        /\ response[1]
        /\ response[2] # None
        /\ Contains(Chars(request.text), response[2])
        /\ normalize_text(response[2]) = locals.pattern_norm

\* the positions of the windows, and the similarity of the window at i
WindowStarts == 0..(Len(locals.words) - Len(locals.pattern_words))

WindowSimilarity(i) ==
    ratio(JoinWords(locals.words, i, i + Len(locals.pattern_words)), locals.pattern_norm)

\* C13: when the normalized needle is not a substring of the normalized
\* haystack, fuzzy_match succeeds, for every threshold from 0.0 to 1.0, iff
\* some window of k consecutive haystack words has similarity >= threshold to
\* the normalized needle; on success the span is the original-cased words of a
\* window of highest similarity, on failure the result is (false, no span).
WindowDecidesFuzzyMatch ==
    (pc = "returned" /\ ~SubstringStep) =>
        LET good == { i \in WindowStarts :
                        AtLeast(WindowSimilarity(i), request.threshold[1],
                                request.threshold[2]) }
        IN  /\ response[1] <=> good # {}
            /\ response[1] =>
                  \E i \in good :
                      /\ \A j \in WindowStarts :
                            ~Greater(WindowSimilarity(j), WindowSimilarity(i))
                      /\ response[2] = JoinWords(split(Chars(request.text)), i,
                                                 i + Len(locals.pattern_words))
            /\ ~response[1] => response = <<FALSE, None>>

\* C14: fuzzy_match is reflexive: for every non-empty string s and every
\* threshold <= 1.0, fuzzy_match(s, s, threshold) reports matched = true.
FuzzyMatchReflexive ==
    (pc = "returned" /\ request.text = request.pattern /\ request.text # "") =>
        response[1]

\* C14 case: a string in capitals matched against itself at threshold 1.0
CapitalsMatchThemselves ==
    /\ pc = "returned"
    /\ request.text = "EAGLE PEAK BOURBON"
    /\ request.pattern = request.text
    /\ request.threshold = <<1, 1>>
    /\ response[1]

\* the text is in canonical form: no capital letter, no whitespace but single
\* spaces between other characters
Canonical(n) ==
    /\ \A i \in 1..Len(n) : n[i] \notin UpperSet /\ n[i] \notin (Whitespace \ {" "})
    /\ n # <<>> => (n[1] # " " /\ n[Len(n)] # " ")
    /\ \A i \in 1..(Len(n) - 1) : ~(n[i] = " " /\ n[i + 1] = " ")

\* C15: normalize_text is total and idempotent: for every string it returns a
\* lower-cased string without leading or trailing whitespace and without a
\* whitespace run other than a single space, and normalizing the result again
\* gives the result.
NormalizeCanonicalIdempotent ==
    pc = "returned" =>
        \A n \in { locals.text_norm, locals.pattern_norm } :
            /\ Canonical(n)
            /\ normalize_text(n) = n

\* C15 case: a text with capitals, spaces around it and a line break inside
PaddedTextNormalized ==
    /\ pc = "returned"
    /\ request.text = "  Eagle Peak  "
    /\ request.pattern = "Old\nEagle\nPeak Bourbon"
    /\ locals.text_norm = Chars("eagle peak")
    /\ locals.pattern_norm = Chars("old eagle peak bourbon")

\* C16: case and spacing differences never change a match decision: the
\* matched flag of fuzzy_match(haystack, needle, threshold) is the one of
\* fuzzy_match(normalize_text(haystack), normalize_text(needle), threshold).
NormalizedInputsSameDecision ==
    pc = "returned" =>
        response[1] = fuzzy_match(locals.text_norm, locals.pattern_norm,
                                  request.threshold[1], request.threshold[2])[1]

\* C16 case: a haystack in capitals matched through the windows against a
\* needle in another case
WindowMatchAcrossCase ==
    /\ pc = "returned"
    /\ request.text = "EAGLE PEAK BOURBON"
    /\ request.pattern = "Eagle Peaks Bourbon"
    /\ ~SubstringStep
    /\ response[1]

\* C17: an empty or whitespace-only needle matches every haystack at the
\* substring step; a needle with more words than the haystack has no window,
\* so that the substring check alone decides, and the result is (false, no
\* span) when that check fails.
EdgeCasesOfFuzzyMatch ==
    pc = "returned" =>
        /\ locals.pattern_norm = <<>> =>
              /\ SubstringStep
              /\ response = <<TRUE, Slice(Chars(request.text), 0, Len(request.pattern))>>
        /\ Len(locals.pattern_words) > Len(locals.words) =>
              /\ WindowStarts = {}
              /\ response[1] <=> SubstringStep
              /\ ~SubstringStep => response = <<FALSE, None>>

\* C17 case: a needle of two words, the first of them the only word of the
\* haystack, at a threshold the shorter window would pass
LongerNeedleNotMatched ==
    /\ pc = "returned"
    /\ request.text = "Eagle"
    /\ request.pattern = "Eagle Peak"
    /\ request.threshold = <<1, 2>>
    /\ response = <<FALSE, None>>

(***************************************************************************)
(* Properties of the warning locator (specification WarningSpec)           *)
(***************************************************************************)
\* C11: the warning section is located and judged independently of where the
\* line breaks are: a line break in the place of a space of the warning
\* statement (also the space of the header "GOVERNMENT WARNING:" and the one
\* of the closing phrase "health problems") leaves the located span, its
\* whitespace collapsed, and the verdict of validate_warning_compliance
\* unchanged.
LineBreaksDoNotChangeWarning ==
    pc = "returned" =>
        /\ response.warning_text = locals.printed.warning_text
        /\ response.is_compliant = locals.printed.is_compliant
        /\ response.violations = locals.printed.violations

(***************************************************************************)
(* Properties of the warning span (specification SpanSpec)                 *)
(***************************************************************************)
\* C30: the compliance verdict depends only on the warning span: label texts
\* that agree on the text from the first "GOVERNMENT WARNING:" (in any letter
\* case) through the first following "health problems", and differ only in
\* front of that header (where no other header stands) or behind that phrase,
\* get the same compliant flag and the same violation list; so each gets
\* those of the span alone.
VerdictDependsOnSpanOnly ==
    pc = "compared" =>
        /\ response.warning_text = strip(collapse_ws(locals.span))
        /\ response.is_compliant = locals.alone.is_compliant
        /\ response.violations = locals.alone.violations

\* C30 case: a non-compliant span between a label head and a text that holds
\* the closing phrase and a header again
SpanJudgedAmongOtherText ==
    /\ pc = "compared"
    /\ request.before # ""
    /\ Contains(lower(Chars(request.after)), Chars("government warning:"))
    /\ ~response.is_compliant
    /\ Len(response.violations) >= 2
    /\ response.violations = locals.alone.violations

====
